---------------------------- MODULE Spec2Model ----------------------------
(***************************************************************************)
(* qDSA signatures and Diffie-Hellman on the Gaudry-Schost Kummer surface  *)
(* (src/qdsv.c) with the Bob Jr. sponge over Keccak-f[800] (src/supp.c).   *)
(*                                                                         *)
(* Representation.  TLC integers are 32-bit, so no C object wider than 16  *)
(* bits is held as one integer:                                            *)
(*   - memory (uint8_t buffers, uint32_t arrays read as little-endian      *)
(*     words) is a sequence of bytes, byte i of the C object at index i+1; *)
(*   - a field element fe1271 (128 bits, unreduced) is a sequence of ten   *)
(*     13-bit limbs, little-endian, limb k at index k+1;                   *)
(*   - a Keccak lane (uint32_t) is the sequence of its four bytes, least   *)
(*     significant first.                                                  *)
(* Sequences are built with <<>>, Append, \o and SubSeq, which TLC holds   *)
(* as evaluated tuples.                                                    *)
(***************************************************************************)
EXTENDS Integers, Sequences, FiniteSets, Bags, TLC

(***************************************************************************)
(* Field GF(2^127-1): the routines of fe1271.inc (declared at              *)
(* src/qdsv.c:52-66, bodies not in the source tree) are value-accurate     *)
(* modulo p on unreduced 128-bit operands; only fe1271_freeze yields the   *)
(* canonical representative.                                               *)
(***************************************************************************)
LimbBase == 8192
NumLimbs == 10
LimbIdx == 0..(NumLimbs - 1)
\* bit 127 is bit 10 of limb 9
TopSplit == 1024

\* a field element holds its ten limbs; the test has an operand evaluated
\* before the operation on it is entered
IsFe(x) == Len(x) = NumLimbs

\* <<f[lo], ..., f[hi]>>: SubSeq yields the function as an evaluated tuple
Tabulate(f, lo, hi) ==
  SubSeq([k \in 1..(hi - lo + 1) |-> f[lo + k - 1]], 1, hi - lo + 1)

\* f[lo] + ... + f[hi] for f >= 0: the size of the bag that holds f[k] + 1
\* copies of each k in lo..hi, less one copy of each
Sum(f, lo, hi) ==
  BagCardinality([k \in lo..hi |-> f[k] + 1]) - (hi - lo + 1)

\* digit k (from 0) of c, zero outside c
Digit(c, k) == IF k >= 0 /\ k < Len(c) THEN c[k + 1] ELSE 0

\* one carry pass in base b over n digits: each digit keeps its low part and
\* takes the carry of the digit below (the carry out of the top is dropped)
CarryPass(c, b, n) ==
  LET d == [k \in Int |-> (Digit(c, k) % b) + (Digit(c, k - 1) \div b)]
  IN Tabulate(d, 0, n - 1)

\* the n base-b digits of the value of c modulo b^n: carry passes until
\* every digit is below b
RECURSIVE Normalise(_, _, _)
Normalise(c, b, n) ==
  IF Len(c) = n /\ \A k \in 1..n : c[k] < b THEN c
  ELSE Normalise(CarryPass(c, b, n), b, n)

\* 128x128 -> 256 bit schoolbook product, as 21 normalised limbs
bigint_mul(x, y) ==
  LET col == [k \in Int |->
               LET term == [i \in Int |-> x[i + 1] * y[k - i + 1]]
               IN Sum(term, IF k > 9 THEN k - 9 ELSE 0, IF k < 9 THEN k ELSE 9)]
  IN Normalise(Tabulate(col, 0, 18), LimbBase, 21)

bigint_sqr(x) == bigint_mul(x, x)

\* one carry pass over the ten limbs of a field element; the carry out of
\* limb 9 has weight 2^130 = 8 (mod p)
FoldTop(f) ==
  LET d == [k \in Int |->
             (f[k + 1] % LimbBase)
             + (IF k = 0 THEN 8 * (f[10] \div LimbBase) ELSE f[k] \div LimbBase)]
  IN Tabulate(d, 0, 9)

\* 256 -> 128 bit reduction of 21 normalised limbs: limb 10 + k has weight
\* 8 * 2^(13k) and limb 20 weight 64 (mod p)
bigint_red(t) ==
  LET d == [k \in Int |-> t[k + 1] + 8 * t[k + 11] + (IF k = 0 THEN 64 * t[21] ELSE 0)]
  IN FoldTop(Tabulate(d, 0, 9))

fe1271_mul(x, y) ==
  CASE IsFe(x) /\ IsFe(y) -> bigint_red(bigint_mul(x, y))

fe1271_square(x) ==
  CASE IsFe(x) -> bigint_red(bigint_sqr(x))

\* y is a 16-bit constant
fe1271_mulconst(x, y) ==
  LET d == [k \in Int |-> x[k + 1] * y]
  IN CASE IsFe(x) -> bigint_red(Normalise(Tabulate(d, 0, 9), LimbBase, 21))

fe1271_add(x, y) ==
  LET d == [k \in Int |-> x[k + 1] + y[k + 1]]
  IN CASE IsFe(x) /\ IsFe(y) -> FoldTop(Tabulate(d, 0, 9))

\* limb k of 16p, a multiple of p whose limbs dominate those of any operand
SixteenP(k) == IF k = 9 THEN 16 * (TopSplit - 1) ELSE 16 * (LimbBase - 1)

fe1271_sub(x, y) ==
  LET d == [k \in Int |-> x[k + 1] + SixteenP(k) - y[k + 1]]
  IN CASE IsFe(x) /\ IsFe(y) -> FoldTop(Tabulate(d, 0, 9))

FeZero == <<0, 0, 0, 0, 0, 0, 0, 0, 0, 0>>

fe1271_neg(x) == fe1271_sub(FeZero, x)

P127 == <<LimbBase - 1, LimbBase - 1, LimbBase - 1, LimbBase - 1, LimbBase - 1,
          LimbBase - 1, LimbBase - 1, LimbBase - 1, LimbBase - 1, TopSplit - 1>>

\* one carry pass that wraps at bit 127 (2^127 = 1 mod p)
WrapPass(f) ==
  LET d == [k \in Int |->
             IF k = 0 THEN (f[1] % LimbBase) + (f[10] \div TopSplit)
             ELSE IF k = 9 THEN (f[10] % TopSplit) + (f[9] \div LimbBase)
             ELSE (f[k + 1] % LimbBase) + (f[k] \div LimbBase)]
  IN Tabulate(d, 0, 9)

\* the canonical representative in [0, p): both 0 and p go to 0
RECURSIVE fe1271_freeze(_)
fe1271_freeze(x) ==
  IF x[10] < TopSplit /\ \A k \in 1..9 : x[k] < LimbBase
  THEN IF x = P127 THEN FeZero ELSE x
  ELSE fe1271_freeze(WrapPass(x))

\* limb k of the 128-bit little-endian value in the 16 bytes of b from
\* offset off
LoadLimb(b, off, k) ==
  LET j == (13 * k) \div 8
      byte(i) == IF i < 16 THEN b[off + i + 1] ELSE 0
      v == byte(j) + 256 * byte(j + 1) + 65536 * byte(j + 2)
  IN (v \div (2 ^ ((13 * k) % 8))) % LimbBase

\* 16 bytes of memory at offset off, read as a field element
FeLoad(b, off) ==
  LET limb == [k \in Int |-> LoadLimb(b, off, k)]
  IN Tabulate(limb, 0, NumLimbs - 1)

\* byte j of a value held in limbs
StoreByte(x, j) ==
  LET k == (8 * j) \div 13
      v == x[k + 1] + LimbBase * (IF k + 2 <= Len(x) THEN x[k + 2] ELSE 0)
  IN (v \div (2 ^ ((8 * j) % 13))) % 256

\* the 16 bytes of a field element
FeStore(x) ==
  LET byte == [j \in Int |-> StoreByte(x, j)]
  IN Tabulate(byte, 0, 15)

(***************************************************************************)
(* Memory helpers.                                                         *)
(***************************************************************************)
Zero16 == <<0, 0, 0, 0, 0, 0, 0, 0, 0, 0, 0, 0, 0, 0, 0, 0>>
Zero128 == Zero16 \o Zero16 \o Zero16 \o Zero16 \o Zero16 \o Zero16 \o Zero16 \o Zero16

\* n <= 128 zero bytes
ZeroBytes(n) == SubSeq(Zero128, 1, n)

\* bytes off..off+n-1 of b, as an array of its own
Slice(b, off, n) == SubSeq(b, off + 1, off + n)

\* "len /= 4" of the wam_ routines: the bytes of the whole words of len
WholeWords(len) == 4 * (len \div 4)

\* b with the whole words of the n bytes of s written at offset off
wam_copy(b, off, s, n) ==
  SubSeq(b, 1, off) \o SubSeq(s, 1, WholeWords(n))
  \o SubSeq(b, off + WholeWords(n) + 1, Len(b))

\* b with the whole words of n bytes from offset off set to zero (wam_fill
\* with v = 0)
wam_zero(b, off, n) ==
  SubSeq(b, 1, off) \o ZeroBytes(WholeWords(n))
  \o SubSeq(b, off + WholeWords(n) + 1, Len(b))

(***************************************************************************)
(* Field helpers of src/qdsv.c on values.                                  *)
(***************************************************************************)
set_const(c) == <<c % LimbBase, c \div LimbBase, 0, 0, 0, 0, 0, 0, 0, 0>>

\* 0 if r is zero mod p, 1 if not: 1 + r is frozen, bit 0 is flipped and
\* the four words are OR-ed
fe1271_zeroness(r) ==
  LET one == fe1271_freeze(fe1271_add(set_const(1), r))
      flipped == [one EXCEPT ![1] = IF @ % 2 = 0 THEN @ + 1 ELSE @ - 1]
  IN IF flipped = FeZero THEN 0 ELSE 1

\* the loops "for (i = 0; i < n; i++) fe1271_square(r, r)": n squarings,
\* done as two runs of half the length
RECURSIVE SquareTimes(_, _)
SquareTimes(r, n) ==
  CASE IsFe(r) ->
    IF n = 0 THEN r
    ELSE IF n = 1 THEN fe1271_square(r)
    ELSE SquareTimes(SquareTimes(r, n \div 2), n - (n \div 2))

\* a kpoint is a record of four field elements
KPoint(x, y, z, t) == [X |-> x, Y |-> y, Z |-> z, T |-> t]

\* fe1271_hdmrd on the four adjacent elements of a kpoint.  The source
\* fixes it through fe1271_H: negating the first input and the last output
\* of hdmrd gives the Hadamard transform.
fe1271_hdmrd(x) ==
  LET s1 == fe1271_sub(x.Y, x.X)
      s2 == fe1271_add(x.Z, x.T)
      s3 == fe1271_add(x.X, x.Y)
      s4 == fe1271_sub(x.Z, x.T)
  IN KPoint(fe1271_add(s1, s2), fe1271_sub(s1, s2),
            fe1271_sub(s4, s3), fe1271_add(s3, s4))

\* bit k of the byte a
BitOf(a, k) == (a \div (2 ^ k)) % 2

\* a ^ b on bytes
Xor8(a, b) ==
  ((BitOf(a, 0) + BitOf(b, 0)) % 2) + 2 * ((BitOf(a, 1) + BitOf(b, 1)) % 2)
  + 4 * ((BitOf(a, 2) + BitOf(b, 2)) % 2) + 8 * ((BitOf(a, 3) + BitOf(b, 3)) % 2)
  + 16 * ((BitOf(a, 4) + BitOf(b, 4)) % 2) + 32 * ((BitOf(a, 5) + BitOf(b, 5)) % 2)
  + 64 * ((BitOf(a, 6) + BitOf(b, 6)) % 2) + 128 * ((BitOf(a, 7) + BitOf(b, 7)) % 2)

\* a & b on bytes
And8(a, b) ==
  (BitOf(a, 0) * BitOf(b, 0)) + 2 * (BitOf(a, 1) * BitOf(b, 1))
  + 4 * (BitOf(a, 2) * BitOf(b, 2)) + 8 * (BitOf(a, 3) * BitOf(b, 3))
  + 16 * (BitOf(a, 4) * BitOf(b, 4)) + 32 * (BitOf(a, 5) * BitOf(b, 5))
  + 64 * (BitOf(a, 6) * BitOf(b, 6)) + 128 * (BitOf(a, 7) * BitOf(b, 7))

\* v &= q in the place of v |= q
BitAnd(v, q) == And8(v, q)

\* v |= q on ints that fit a byte
BitOr(v, q) == v + q - And8(v, q)

(***************************************************************************)
(* The field code of src/qdsv.c as programs.  The field elements and the   *)
(* ints of the code live in a memory m, a function from the names of the   *)
(* objects to their values: <<p, "X">> is the element X of the kpoint p,   *)
(* <<f, v>> the local v of the function f.  A C function is the sequence   *)
(* of the statements it runs, given the names its pointer parameters point *)
(* to; a statement names its operation and its operands, and the two       *)
(* branches of an "if" are programs.  Exec runs a statement and Run a      *)
(* program, so that an operand that aliases a result, a scratch element    *)
(* that is left behind and an element that is never written are what they  *)
(* are in the code.                                                        *)
(***************************************************************************)
\* &p->X, &p->Y, &p->Z, &p->T
PX(p) == <<p, "X">>
PY(p) == <<p, "Y">>
PZ(p) == <<p, "Z">>
PT(p) == <<p, "T">>

\* the local v of the function f
Loc(f, v) == <<f, v>>

\* m with the object n set to v
Put(m, n, v) == IF n \in DOMAIN m THEN [m EXCEPT ![n] = v] ELSE (n :> v) @@ m

\* the kpoint p of m, and m with the kpoint p set to v
Pt(m, p) == KPoint(m[PX(p)], m[PY(p)], m[PZ(p)], m[PT(p)])

PutPt(m, p, v) ==
  Put(Put(Put(Put(m, PX(p), v.X), PY(p), v.Y), PZ(p), v.Z), PT(p), v.T)

\* the 16-bit mask -b of ct_swap on a storage unit of the model
SwapMask(b) == (65536 - b) % 65536

\* X[i] ^= t and Y[i] ^= t with t = (X[i] ^ Y[i]) & -b, on one limb
SwapLimb(x, y, b) ==
  Xor8(x % 256, And8(Xor8(x % 256, y % 256), SwapMask(b) % 256))
  + 256 * Xor8(x \div 256, And8(Xor8(x \div 256, y \div 256), SwapMask(b) \div 256))

SwapFe(x, y, b) ==
  LET limb == [k \in Int |-> SwapLimb(x[k + 1], y[k + 1], b)]
  IN CASE IsFe(x) /\ IsFe(y) -> Tabulate(limb, 0, NumLimbs - 1)

\* ct_swap whose loop stops after the 8 words of X and Y
ct_swap_xy(x, y, b) ==
  [x |-> KPoint(SwapFe(x.X, y.X, b), SwapFe(x.Y, y.Y, b), x.Z, x.T),
   y |-> KPoint(SwapFe(y.X, x.X, b), SwapFe(y.Y, x.Y, b), y.Z, y.T)]

\* wam_swap(a, b, len) on two kpoints, [x, y] after it: the first len / 4
\* words are exchanged, for a len that ends on a field element
wam_swap(x, y, len) ==
  CASE WholeWords(len) % 16 = 0 ->
    [x |-> KPoint(IF WholeWords(len) >= 16 THEN y.X ELSE x.X,
                  IF WholeWords(len) >= 32 THEN y.Y ELSE x.Y,
                  IF WholeWords(len) >= 48 THEN y.Z ELSE x.Z,
                  IF WholeWords(len) >= 64 THEN y.T ELSE x.T),
     y |-> KPoint(IF WholeWords(len) >= 16 THEN x.X ELSE y.X,
                  IF WholeWords(len) >= 32 THEN x.Y ELSE y.Y,
                  IF WholeWords(len) >= 48 THEN x.Z ELSE y.Z,
                  IF WholeWords(len) >= 64 THEN x.T ELSE y.T)]

\* conditional kpoint swap of the constant-time ladder: [x, y] after it
ct_swap(x, y, b) ==
  [x |-> KPoint(SwapFe(x.X, y.X, b), SwapFe(x.Y, y.Y, b), SwapFe(x.Z, y.Z, b),
                SwapFe(x.T, y.T, b)),
   y |-> KPoint(SwapFe(y.X, x.X, b), SwapFe(y.Y, x.Y, b), SwapFe(y.Z, x.Z, b),
                SwapFe(y.T, x.T, b))]

\* m after ct_swap on the kpoints x and y, given what ct_swap yields
PutSwap(m, x, y, s) == PutPt(PutPt(m, x, s.x), y, s.y)

\* r->b[15] &= 0x7f
ClearTop(v) == [v EXCEPT ![10] = @ % TopSplit]

\* r->b[15] |= (c & 1) << 7
OrTop(v, c) ==
  [v EXCEPT ![10] = IF (@ \div TopSplit) % 2 = 1 THEN @ ELSE @ + TopSplit * (c % 2)]

\* r->b[0] = c
SetByte0(v, c) == [v EXCEPT ![1] = (@ \div 256) * 256 + c]

RECURSIVE Run(_, _, _, _)
RECURSIVE Exec(_, _)
\* m after the statement s
Exec(m, s) ==
  CASE s[1] = "fe1271_mul" -> Put(m, s[2], fe1271_mul(m[s[3]], m[s[4]]))
    [] s[1] = "fe1271_square" -> Put(m, s[2], fe1271_square(m[s[3]]))
    [] s[1] = "fe1271_mulconst" -> Put(m, s[2], fe1271_mulconst(m[s[3]], s[4]))
    [] s[1] = "fe1271_add" -> Put(m, s[2], fe1271_add(m[s[3]], m[s[4]]))
    [] s[1] = "fe1271_sub" -> Put(m, s[2], fe1271_sub(m[s[3]], m[s[4]]))
    [] s[1] = "fe1271_neg" -> Put(m, s[2], fe1271_neg(m[s[2]]))
    [] s[1] = "fe1271_freeze" -> Put(m, s[2], fe1271_freeze(m[s[2]]))
    [] s[1] = "fe1271_hdmrd" -> PutPt(m, s[2], fe1271_hdmrd(Pt(m, s[3])))
    [] s[1] = "fe1271_setzero" -> Put(m, s[2], FeZero)
    [] s[1] = "fe1271_copy" -> Put(m, s[2], m[s[3]])
    [] s[1] = "set_const" -> Put(m, s[2], set_const(s[3]))
    [] s[1] = "for_square" -> Put(m, s[2], SquareTimes(m[s[2]], s[3]))
    [] s[1] = "fe1271_zeroness" -> Put(m, s[2], fe1271_zeroness(m[s[3]]))
    [] s[1] = "ct_swap" -> PutSwap(m, s[2], s[3], ct_swap(Pt(m, s[2]), Pt(m, s[3]), s[4]))
    [] s[1] = "wam_swap" -> PutSwap(m, s[2], s[3], wam_swap(Pt(m, s[2]), Pt(m, s[3]), s[4]))
    \* fe1271_copy from 16 bytes of a ckpoint; a static const element
    [] s[1] = "load" -> Put(m, s[2], FeLoad(s[3], s[4]))
    [] s[1] = "const" -> Put(m, s[2], s[3])
    \* r->b[15] &= 0x7f; r->b[15] |= (c & 1) << 7; r->b[0] = c; c = r->b[0]
    [] s[1] = "clear_top" -> Put(m, s[2], ClearTop(m[s[2]]))
    [] s[1] = "or_top" -> Put(m, s[2], OrTop(m[s[2]], m[s[3]]))
    [] s[1] = "set_byte0" -> Put(m, s[2], SetByte0(m[s[2]], s[3]))
    [] s[1] = "byte0" -> Put(m, s[2], m[s[3]][1] % 256)
    \* ints: d = c; d = a; d = a | b; d = a | c; d = a ^ c; d = a & c
    [] s[1] = "int" -> Put(m, s[2], s[3])
    [] s[1] = "int_copy" -> Put(m, s[2], m[s[3]])
    [] s[1] = "or" -> Put(m, s[2], BitOr(m[s[3]], m[s[4]]))
    [] s[1] = "or_const" -> Put(m, s[2], BitOr(m[s[3]], s[4]))
    [] s[1] = "xor_const" -> Put(m, s[2], Xor8(m[s[3]], s[4]))
    [] s[1] = "and_const" -> Put(m, s[2], And8(m[s[3]], s[4]))
    \* if (c) s[3] else s[4]; if (c == 0) s[3] else s[4]
    [] s[1] = "if" ->
         IF m[s[2]] # 0 THEN Run(m, s[3], 1, Len(s[3])) ELSE Run(m, s[4], 1, Len(s[4]))
    [] s[1] = "ifz" ->
         IF m[s[2]] = 0 THEN Run(m, s[3], 1, Len(s[3])) ELSE Run(m, s[4], 1, Len(s[4]))

\* m after the statements lo..hi of the program p, run in order: the first
\* half, then the second half on what the first half left
Run(m, p, lo, hi) ==
  CASE DOMAIN m # {} ->
    IF lo > hi THEN m
    ELSE IF lo = hi THEN Exec(m, p[lo])
    ELSE Run(Run(m, p, lo, (lo + hi) \div 2), p, ((lo + hi) \div 2) + 1, hi)

\* m after the program p
RunAll(m, p) == Run(m, p, 1, Len(p))

\* the addition chain of the source: 11 MUL, 125 SQR
\* fe1271_powminhalf without its last multiplication
fe1271_powminhalf_short(r, x) ==
  <<<<"fe1271_square", Loc("fe1271_powminhalf", "x2"), x>>,
    <<"fe1271_mul", Loc("fe1271_powminhalf", "x3"), Loc("fe1271_powminhalf", "x2"), x>>,
    <<"fe1271_square", Loc("fe1271_powminhalf", "x6"), Loc("fe1271_powminhalf", "x3")>>,
    <<"fe1271_square", Loc("fe1271_powminhalf", "x6"), Loc("fe1271_powminhalf", "x6")>>,
    <<"fe1271_mul", Loc("fe1271_powminhalf", "x3"), Loc("fe1271_powminhalf", "x6"),
      Loc("fe1271_powminhalf", "x3")>>,
    <<"fe1271_square", Loc("fe1271_powminhalf", "x6"), Loc("fe1271_powminhalf", "x3")>>,
    <<"fe1271_mul", Loc("fe1271_powminhalf", "x6"), Loc("fe1271_powminhalf", "x6"), x>>,
    <<"fe1271_square", r, Loc("fe1271_powminhalf", "x6")>>,
    <<"for_square", r, 4>>,
    <<"fe1271_mul", Loc("fe1271_powminhalf", "x6"), r, Loc("fe1271_powminhalf", "x6")>>,
    <<"fe1271_square", r, Loc("fe1271_powminhalf", "x6")>>,
    <<"for_square", r, 9>>,
    <<"fe1271_mul", Loc("fe1271_powminhalf", "x6"), r, Loc("fe1271_powminhalf", "x6")>>,
    <<"fe1271_square", r, Loc("fe1271_powminhalf", "x6")>>,
    <<"for_square", r, 19>>,
    <<"fe1271_mul", Loc("fe1271_powminhalf", "x6"), r, Loc("fe1271_powminhalf", "x6")>>,
    <<"fe1271_square", r, Loc("fe1271_powminhalf", "x6")>>,
    <<"for_square", r, 39>>,
    <<"fe1271_mul", r, r, Loc("fe1271_powminhalf", "x6")>>,
    <<"for_square", r, 40>>,
    <<"fe1271_mul", r, r, Loc("fe1271_powminhalf", "x6")>>,
    <<"for_square", r, 4>>,
    <<"fe1271_mul", r, r, Loc("fe1271_powminhalf", "x3")>>,
    <<"fe1271_square", r, r>>,
    <<"fe1271_mul", Loc("fe1271_powminhalf", "x6"), r, Loc("fe1271_powminhalf", "x2")>>,
    <<"fe1271_square", Loc("fe1271_powminhalf", "x6"), Loc("fe1271_powminhalf", "x6")>>>>

fe1271_powminhalf(r, x) ==
  <<<<"fe1271_square", Loc("fe1271_powminhalf", "x2"), x>>,
    <<"fe1271_mul", Loc("fe1271_powminhalf", "x3"), Loc("fe1271_powminhalf", "x2"), x>>,
    <<"fe1271_square", Loc("fe1271_powminhalf", "x6"), Loc("fe1271_powminhalf", "x3")>>,
    <<"fe1271_square", Loc("fe1271_powminhalf", "x6"), Loc("fe1271_powminhalf", "x6")>>,
    <<"fe1271_mul", Loc("fe1271_powminhalf", "x3"), Loc("fe1271_powminhalf", "x6"),
      Loc("fe1271_powminhalf", "x3")>>,
    <<"fe1271_square", Loc("fe1271_powminhalf", "x6"), Loc("fe1271_powminhalf", "x3")>>,
    <<"fe1271_mul", Loc("fe1271_powminhalf", "x6"), Loc("fe1271_powminhalf", "x6"), x>>,
    <<"fe1271_square", r, Loc("fe1271_powminhalf", "x6")>>,
    <<"for_square", r, 4>>,
    <<"fe1271_mul", Loc("fe1271_powminhalf", "x6"), r, Loc("fe1271_powminhalf", "x6")>>,
    <<"fe1271_square", r, Loc("fe1271_powminhalf", "x6")>>,
    <<"for_square", r, 9>>,
    <<"fe1271_mul", Loc("fe1271_powminhalf", "x6"), r, Loc("fe1271_powminhalf", "x6")>>,
    <<"fe1271_square", r, Loc("fe1271_powminhalf", "x6")>>,
    <<"for_square", r, 19>>,
    <<"fe1271_mul", Loc("fe1271_powminhalf", "x6"), r, Loc("fe1271_powminhalf", "x6")>>,
    <<"fe1271_square", r, Loc("fe1271_powminhalf", "x6")>>,
    <<"for_square", r, 39>>,
    <<"fe1271_mul", r, r, Loc("fe1271_powminhalf", "x6")>>,
    <<"for_square", r, 40>>,
    <<"fe1271_mul", r, r, Loc("fe1271_powminhalf", "x6")>>,
    <<"for_square", r, 4>>,
    <<"fe1271_mul", r, r, Loc("fe1271_powminhalf", "x3")>>,
    <<"fe1271_square", r, r>>,
    <<"fe1271_mul", Loc("fe1271_powminhalf", "x6"), r, Loc("fe1271_powminhalf", "x2")>>,
    <<"fe1271_square", Loc("fe1271_powminhalf", "x6"), Loc("fe1271_powminhalf", "x6")>>,
    <<"fe1271_mul", r, r, Loc("fe1271_powminhalf", "x6")>>>>

fe1271_invert(r, x) ==
  <<<<"fe1271_square", r, x>>>>
  \o fe1271_powminhalf(r, r)
  \o <<<<"fe1271_mul", Loc("fe1271_invert", "t"), r, x>>,
       <<"fe1271_mul", r, r, Loc("fe1271_invert", "t")>>>>

\* c1*c2 + c3*c4
fe1271_sum(r, t, c1, c2, c3, c4) ==
  <<<<"set_const", t, c1>>,
    <<"fe1271_mulconst", t, t, c2>>,
    <<"set_const", r, c3>>,
    <<"fe1271_mulconst", r, r, c4>>,
    <<"fe1271_add", r, r, t>>>>

\* sqrt(delta) with sign sigma in R; the int ret takes the value returned,
\* 0 if it exists
fe1271_has_sqrt(ret, R, t, delta, sigma) ==
  fe1271_powminhalf(R, delta)
  \o <<<<"fe1271_mul", R, R, delta>>,
       <<"fe1271_square", t, R>>,
       <<"fe1271_sub", t, t, delta>>,
       <<"fe1271_zeroness", Loc("fe1271_has_sqrt", "z"), t>>,
       <<"if", Loc("fe1271_has_sqrt", "z"),
         <<<<"int", ret, 1>>>>,
         <<<<"fe1271_freeze", R>>,
           <<"byte0", Loc("fe1271_has_sqrt", "c"), R>>,
           <<"and_const", Loc("fe1271_has_sqrt", "c"), Loc("fe1271_has_sqrt", "c"), 1>>,
           <<"xor_const", Loc("fe1271_has_sqrt", "c"), Loc("fe1271_has_sqrt", "c"), sigma>>,
           <<"if", Loc("fe1271_has_sqrt", "c"), <<<<"fe1271_neg", R>>>>, <<>>>>,
           <<"int", ret, 0>>>>>>>>

(***************************************************************************)
(* Kummer points.                                                          *)
(***************************************************************************)
mul4_const(xq, cons) ==
  <<<<"fe1271_mulconst", PX(xq), PX(xq), cons[1]>>,
    <<"fe1271_mulconst", PY(xq), PY(xq), cons[2]>>,
    <<"fe1271_mulconst", PZ(xq), PZ(xq), cons[3]>>,
    <<"fe1271_mulconst", PT(xq), PT(xq), cons[4]>>>>

mul4(xq, xp) ==
  <<<<"fe1271_mul", PX(xq), PX(xq), PX(xp)>>,
    <<"fe1271_mul", PY(xq), PY(xq), PY(xp)>>,
    <<"fe1271_mul", PZ(xq), PZ(xq), PZ(xp)>>,
    <<"fe1271_mul", PT(xq), PT(xq), PT(xp)>>>>

sqr4(xq, xp) ==
  <<<<"fe1271_square", PX(xq), PX(xp)>>,
    <<"fe1271_square", PY(xq), PY(xp)>>,
    <<"fe1271_square", PZ(xq), PZ(xp)>>,
    <<"fe1271_square", PT(xq), PT(xp)>>>>

\* 0x341, 0x9C3, 0x651, 0x231
ehat == <<833, 2499, 1617, 561>>

\* 0x72, 0x39, 0x42, 0x1a2
e_cons == <<114, 57, 66, 418>>

\* xp <- 2*xp, xq <- xp+xq, with xd the wrapped difference; the first
\* coordinates of xp and xq come in negated, that of xp goes out negated
xDBLADD(xp, xq, xd) ==
  <<<<"fe1271_hdmrd", xq, xq>>,
    <<"fe1271_hdmrd", xp, xp>>>>
  \o mul4(xq, xp)
  \o sqr4(xp, xp)
  \o mul4_const(xq, ehat)
  \o mul4_const(xp, ehat)
  \o <<<<"fe1271_hdmrd", xq, xq>>,
       <<"fe1271_hdmrd", xp, xp>>>>
  \o sqr4(xq, xq)
  \o sqr4(xp, xp)
  \o <<<<"fe1271_mul", PY(xq), PY(xq), PY(xd)>>,
       <<"fe1271_mul", PZ(xq), PZ(xq), PZ(xd)>>,
       <<"fe1271_mul", PT(xq), PT(xq), PT(xd)>>>>
  \o mul4_const(xp, e_cons)

\* (X/Y, X/Z, X/T) -> (X:Y:Z:T)
\* xUNWRAP with T of the wrapped point in place of Z in its first product
xUNWRAP_yt(xp, xpw) ==
  <<<<"fe1271_mul", PT(xp), PY(xpw), PT(xpw)>>,
    <<"fe1271_mul", PZ(xp), PY(xpw), PT(xpw)>>,
    <<"fe1271_mul", PY(xp), PZ(xpw), PT(xpw)>>,
    <<"fe1271_mul", PX(xp), PT(xp), PT(xpw)>>>>

xUNWRAP(xp, xpw) ==
  <<<<"fe1271_mul", PT(xp), PY(xpw), PZ(xpw)>>,
    <<"fe1271_mul", PZ(xp), PY(xpw), PT(xpw)>>,
    <<"fe1271_mul", PY(xp), PZ(xpw), PT(xpw)>>,
    <<"fe1271_mul", PX(xp), PT(xp), PT(xpw)>>>>

\* (X:Y:Z:T) -> (X/Y, X/Z, X/T); the X of xpw is not written
xWRAP(xpw, xp) ==
  <<<<"fe1271_mul", Loc("xWRAP", "w0"), PY(xp), PZ(xp)>>,
    <<"fe1271_mul", Loc("xWRAP", "w1"), Loc("xWRAP", "w0"), PT(xp)>>>>
  \o fe1271_invert(Loc("xWRAP", "w2"), Loc("xWRAP", "w1"))
  \o <<<<"fe1271_mul", Loc("xWRAP", "w2"), Loc("xWRAP", "w2"), PX(xp)>>,
       <<"fe1271_mul", Loc("xWRAP", "w3"), Loc("xWRAP", "w2"), PT(xp)>>,
       <<"fe1271_mul", PY(xpw), Loc("xWRAP", "w3"), PZ(xp)>>,
       <<"fe1271_mul", PZ(xpw), Loc("xWRAP", "w3"), PY(xp)>>,
       <<"fe1271_mul", PT(xpw), Loc("xWRAP", "w0"), Loc("xWRAP", "w2")>>>>

mu_1 == 11
mu_2 == 22
mu_3 == 19
mu_4 == 3

\* the wrapped base point of ladder_base_250 (X is zero-initialised):
\*  Y = { 0x4e931a48, 0xaeb351a6, 0x2049c2e7, 0x1be0c3dc }
\*  Z = { 0xe07e36df, 0x64659818, 0x8eaba630, 0x23b416cd }
\*  T = { 0x7215441e, 0xc7ae3d05, 0x4447a24d, 0x5db35c38 }
bpw ==
  KPoint(FeZero,
         FeLoad(<<
             72,  26, 147,  78, 166,  81, 179, 174, 231, 194,  73,  32, 220, 195, 224,  27 >>, 0),
         FeLoad(<<
            223,  54, 126, 224,  24, 152, 101, 100,  48, 166, 171, 142, 205,  22, 180,  35 >>, 0),
         FeLoad(<<
             30,  68,  21, 114,   5,  61, 174, 199,  77, 162,  71,  68,  56,  92, 179,  93 >>, 0))

(***************************************************************************)
(* Compression and decompression.                                          *)
(***************************************************************************)
q0 == 3575
q1 == 9625
q2 == 4625
q3 == 12259
q4 == 11275
q5 == 7475
q6 == 6009
q7 == 43991

\* K_2(l1,l2,tau) in r, with the scratch element t
get_k2(r, t, l1, l2, tau) ==
  <<<<"fe1271_mulconst", r, l1, q2>>,
    <<"fe1271_mul", r, l2, r>>>>
  \o (IF tau # 0
      THEN <<<<"fe1271_mulconst", t, l1, q0>>,
             <<"fe1271_add", r, r, t>>,
             <<"fe1271_mulconst", t, l2, q1>>,
             <<"fe1271_sub", r, r, t>>>>
      ELSE <<>>)
  \o <<<<"fe1271_mulconst", r, r, q3>>,
       <<"fe1271_add", r, r, r>>,
       <<"fe1271_mulconst", t, l1, q5>>,
       <<"fe1271_square", t, t>>,
       <<"fe1271_sub", r, t, r>>,
       <<"fe1271_mulconst", t, l2, q3>>,
       <<"fe1271_square", t, t>>,
       <<"fe1271_add", r, t, r>>>>
  \o (IF tau # 0
      THEN <<<<"set_const", t, q4>>,
             <<"fe1271_square", t, t>>,
             <<"fe1271_add", r, t, r>>>>
      ELSE <<>>)

\* K_3(l1,l2,tau) in r, with the scratch elements t0 and t1
get_k3(r, t0, t1, l1, l2, tau) ==
  <<<<"fe1271_square", r, l1>>,
    <<"fe1271_square", t0, l2>>>>
  \o (IF tau # 0
      THEN <<<<"set_const", t1, 1>>,
             <<"fe1271_add", r, r, t1>>,
             <<"fe1271_add", t0, t0, t1>>,
             <<"fe1271_add", t1, r, t0>>>>
      ELSE <<>>)
  \o <<<<"fe1271_mul", r, r, l2>>,
       <<"fe1271_mulconst", r, r, q0>>,
       <<"fe1271_mul", t0, t0, l1>>,
       <<"fe1271_mulconst", t0, t0, q1>>,
       <<"fe1271_sub", r, r, t0>>>>
  \o (IF tau # 0
      THEN <<<<"set_const", t0, 1>>,
             <<"fe1271_sub", t1, t1, t0>>,
             <<"fe1271_sub", t1, t1, t0>>,
             <<"fe1271_mulconst", t1, t1, q2>>,
             <<"fe1271_add", r, r, t1>>>>
      ELSE <<>>)
  \o <<<<"fe1271_mulconst", r, r, q3>>>>
  \o (IF tau # 0
      THEN <<<<"fe1271_mul", t0, l1, l2>>,
             <<"fe1271_mulconst", t0, t0, q6>>,
             <<"fe1271_mulconst", t0, t0, q7>>,
             <<"fe1271_sub", r, r, t0>>>>
      ELSE <<>>)

\* K_4(l1,l2,tau) in r, with the scratch element t
get_k4(r, t, l1, l2, tau) ==
  (IF tau # 0
   THEN <<<<"fe1271_mulconst", t, l2, q0>>,
          <<"fe1271_mulconst", r, l1, q1>>,
          <<"fe1271_sub", t, t, r>>,
          <<"set_const", r, q2>>,
          <<"fe1271_add", t, t, r>>,
          <<"fe1271_mul", t, t, l1>>,
          <<"fe1271_mul", t, t, l2>>,
          <<"fe1271_mulconst", t, t, q3>>,
          <<"fe1271_add", t, t, t>>,
          <<"fe1271_mulconst", r, l1, q3>>,
          <<"fe1271_square", r, r>>,
          <<"fe1271_sub", t, r, t>>,
          <<"fe1271_mulconst", r, l2, q5>>,
          <<"fe1271_square", r, r>>,
          <<"fe1271_add", t, r, t>>>>
   ELSE <<>>)
  \o <<<<"fe1271_mulconst", r, l1, q4>>,
       <<"fe1271_mul", r, r, l2>>,
       <<"fe1271_square", r, r>>>>
  \o (IF tau # 0 THEN <<<<"fe1271_add", r, r, t>>>> ELSE <<>>)

\* the row as the comment on T_inv writes it:
\* X1*mu_1 + X2*mu_2 + X3*mu_3 + X4*mu_4
T_inv_row_plain(r, X1, X2, X3, X4) ==
  <<<<"fe1271_mulconst", r, X2, mu_2>>,
    <<"fe1271_mulconst", Loc("T_inv_row", "t"), X1, mu_1>>,
    <<"fe1271_add", r, r, Loc("T_inv_row", "t")>>,
    <<"fe1271_mulconst", Loc("T_inv_row", "t"), X3, mu_3>>,
    <<"fe1271_add", r, r, Loc("T_inv_row", "t")>>,
    <<"fe1271_mulconst", Loc("T_inv_row", "t"), X4, mu_4>>,
    <<"fe1271_add", r, r, Loc("T_inv_row", "t")>>>>

T_inv_row(r, X1, X2, X3, X4) ==
  <<<<"fe1271_add", r, X2, X2>>,
    <<"fe1271_sub", r, r, X1>>,
    <<"fe1271_mulconst", r, r, mu_1>>,
    <<"fe1271_mulconst", Loc("T_inv_row", "t"), X3, mu_3>>,
    <<"fe1271_add", r, r, Loc("T_inv_row", "t")>>,
    <<"fe1271_mulconst", Loc("T_inv_row", "t"), X4, mu_4>>,
    <<"fe1271_add", r, r, Loc("T_inv_row", "t")>>>>

T_inv(r, x) ==
  T_inv_row(PX(r), PT(x), PZ(x), PY(x), PX(x))
  \o T_inv_row(PY(r), PZ(x), PT(x), PX(x), PY(x))
  \o T_inv_row(PZ(r), PY(x), PX(x), PT(x), PZ(x))
  \o T_inv_row(PT(r), PX(x), PY(x), PZ(x), PT(x))

\* tau = (r->X.b[15] & 0x80) >> 7 and sigma = (r->Y.b[15] & 0x80) >> 7 of
\* decompress, r->X and r->Y being copies of the halves of the ckpoint x
decompress_tau(x) == x[16] \div 128
decompress_sigma(x) == x[32] \div 128

\* "T_inv(r, t); return 0" of decompress
decompress_done(ret, r, t) == T_inv(r, t) \o <<<<"int", ret, 0>>>>

\* decompress, k2 = 0 and k3 = 0
decompress_k2k3(ret, r, t, tau, sigma) ==
  <<<<"fe1271_zeroness", Loc("decompress", "zx"), PX(r)>>,
    <<"fe1271_zeroness", Loc("decompress", "zy"), PY(r)>>,
    <<"or", Loc("decompress", "c"), Loc("decompress", "zx"), Loc("decompress", "zy")>>,
    <<"or_const", Loc("decompress", "c"), Loc("decompress", "c"), tau>>,
    <<"or_const", Loc("decompress", "c"), Loc("decompress", "c"), sigma>>,
    <<"if", Loc("decompress", "c"),
      <<<<"int", ret, 1>>>>,
      <<<<"fe1271_setzero", PX(t)>>,
        <<"fe1271_setzero", PY(t)>>,
        <<"fe1271_setzero", PZ(t)>>,
        <<"fe1271_setzero", PT(t)>>,
        <<"set_byte0", PT(t), 1>>>>
      \o decompress_done(ret, r, t)>>>>

\* decompress, k2 = 0 and k3 # 0
decompress_k2(ret, r, t, tau, sigma) ==
  <<<<"byte0", Loc("decompress", "c"), PZ(t)>>,
    <<"xor_const", Loc("decompress", "c"), Loc("decompress", "c"), sigma>>,
    <<"if", Loc("decompress", "c"),
      <<<<"fe1271_mul", PX(t), PZ(t), PX(r)>>,
        <<"fe1271_add", PX(t), PX(t), PX(t)>>,
        <<"fe1271_mul", PY(t), PZ(t), PY(r)>>,
        <<"fe1271_add", PY(t), PY(t), PY(t)>>,
        IF tau # 0 THEN <<"fe1271_add", PZ(t), PZ(t), PZ(t)>>
        ELSE <<"fe1271_setzero", PZ(t)>>>>
      \o decompress_done(ret, r, t),
      <<<<"int", ret, 1>>>>>>>>

\* decompress, k2 # 0
decompress_sqrt(ret, r, t, tau, sigma) ==
  <<<<"fe1271_square", PZ(r), PZ(t)>>,
    <<"fe1271_mul", PT(r), PY(t), PT(t)>>,
    <<"fe1271_sub", PZ(r), PZ(r), PT(r)>>>>
  \o fe1271_has_sqrt(Loc("decompress", "hs"), PT(r), PX(t), PZ(r), sigma)
  \o <<<<"if", Loc("decompress", "hs"),
         <<<<"int", ret, 1>>>>,
         <<<<"fe1271_add", PT(t), PZ(t), PT(r)>>,
           IF tau # 0 THEN <<"fe1271_copy", PZ(t), PY(t)>>
           ELSE <<"fe1271_setzero", PZ(t)>>,
           <<"fe1271_mul", PX(t), PY(t), PX(r)>>,
           <<"fe1271_mul", PY(t), PY(t), PY(r)>>>>
         \o decompress_done(ret, r, t)>>>>

\* decompress(r, t, x) on the kpoints r and t and the 32 bytes x of the
\* ckpoint; the int ret takes the value returned
decompress(ret, r, t, x) ==
  <<<<"load", PX(r), x, 0>>,
    <<"load", PY(r), x, 16>>,
    <<"clear_top", PX(r)>>,
    <<"clear_top", PY(r)>>>>
  \o get_k2(PY(t), PZ(r), PX(r), PY(r), decompress_tau(x))
  \o get_k3(PZ(t), PZ(r), PT(r), PX(r), PY(r), decompress_tau(x))
  \o get_k4(PT(t), PZ(r), PX(r), PY(r), decompress_tau(x))
  \o <<<<"fe1271_zeroness", Loc("decompress", "z2"), PY(t)>>,
       <<"ifz", Loc("decompress", "z2"),
         <<<<"fe1271_freeze", PZ(t)>>,
           <<"fe1271_zeroness", Loc("decompress", "z3"), PZ(t)>>,
           <<"ifz", Loc("decompress", "z3"),
             decompress_k2k3(ret, r, t, decompress_tau(x), decompress_sigma(x)),
             decompress_k2(ret, r, t, decompress_tau(x), decompress_sigma(x))>>>>,
         decompress_sqrt(ret, r, t, decompress_tau(x), decompress_sigma(x))>>>>

khat_1 == 961
khat_2 == 128
khat_3 == 569
khat_4 == 1097

T_row(r, X1, X2, X3, X4) ==
  <<<<"fe1271_mulconst", r, X2, khat_2>>,
    <<"fe1271_mulconst", Loc("T_row", "t"), X3, khat_3>>,
    <<"fe1271_add", r, r, Loc("T_row", "t")>>,
    <<"fe1271_mulconst", Loc("T_row", "t"), X4, khat_4>>,
    <<"fe1271_add", r, r, Loc("T_row", "t")>>,
    <<"fe1271_mulconst", Loc("T_row", "t"), X1, khat_1>>,
    <<"fe1271_sub", r, r, Loc("T_row", "t")>>>>

\* the matrix T of compress (the C function T)
T_mat(r, x) ==
  T_row(PX(r), PT(x), PZ(x), PY(x), PX(x))
  \o T_row(PY(r), PZ(x), PT(x), PX(x), PY(x))
  \o T_row(PZ(r), PY(x), PX(x), PT(x), PZ(x))
  \o T_row(PT(r), PX(x), PY(x), PZ(x), PT(x))

\* "k2*l4 - k3" of compress, for the value tau has
compress_k(l1, l2, tau) ==
  get_k2(PZ("compress.t"), PX("compress.t"), l1, l2, tau)
  \o <<<<"fe1271_mul", PZ("compress.t"), PZ("compress.t"), PT("compress.t")>>>>
  \o get_k3(PT("compress.t"), PX("compress.t"), PY("compress.t"), l1, l2, tau)
  \o <<<<"fe1271_sub", PZ("compress.t"), PZ("compress.t"), PT("compress.t")>>>>

\* compress(l1, l2, x): l1 with tau and l2 with sigma of the kpoint x
compress(l1, l2, x) ==
  T_mat("compress.t", x)
  \o <<<<"fe1271_zeroness", Loc("compress", "tau"), PZ("compress.t")>>,
       <<"if", Loc("compress", "tau"),
         fe1271_invert(l2, PZ("compress.t")),
         <<<<"fe1271_zeroness", Loc("compress", "zy"), PY("compress.t")>>,
           <<"if", Loc("compress", "zy"),
             fe1271_invert(l2, PY("compress.t")),
             <<<<"fe1271_zeroness", Loc("compress", "zx"), PX("compress.t")>>,
               <<"if", Loc("compress", "zx"),
                 fe1271_invert(l2, PX("compress.t")),
                 fe1271_invert(l2, PT("compress.t"))>>>>>>>>>>,
       <<"fe1271_mul", PT("compress.t"), PT("compress.t"), l2>>,
       <<"fe1271_mul", l1, PX("compress.t"), l2>>,
       <<"fe1271_mul", l2, PY("compress.t"), l2>>,
       <<"if", Loc("compress", "tau"), compress_k(l1, l2, 1), compress_k(l1, l2, 0)>>,
       <<"fe1271_freeze", l1>>,
       <<"fe1271_freeze", l2>>,
       <<"fe1271_freeze", PZ("compress.t")>>,
       <<"or_top", l1, Loc("compress", "tau")>>,
       <<"byte0", Loc("compress", "z"), PZ("compress.t")>>,
       <<"or_top", l2, Loc("compress", "z")>>>>

(***************************************************************************)
(* Verification: the biquadratic forms.                                    *)
(***************************************************************************)
\* 0x0021, 0x000B, 0x0011, 0x0031
muhat == <<33, 11, 17, 49>>

fe1271_H(x) ==
  <<<<"fe1271_neg", PX(x)>>,
    <<"fe1271_hdmrd", x, x>>,
    <<"fe1271_neg", PT(x)>>>>

dot(r, x0, x1, x2, x3, y0, y1, y2, y3) ==
  <<<<"fe1271_mul", r, x0, y0>>,
    <<"fe1271_mul", Loc("dot", "t"), x1, y1>>,
    <<"fe1271_add", r, r, Loc("dot", "t")>>,
    <<"fe1271_mul", Loc("dot", "t"), x2, y2>>,
    <<"fe1271_add", r, r, Loc("dot", "t")>>,
    <<"fe1271_mul", Loc("dot", "t"), x3, y3>>,
    <<"fe1271_add", r, r, Loc("dot", "t")>>>>

k1 == 4697
k2 == 5951
k3 == 5753
k4 == 1991

dot_const(r, x0, x1, x2, x3) ==
  <<<<"fe1271_mulconst", r, x0, k1>>,
    <<"fe1271_mulconst", Loc("dot_const", "t"), x1, k2>>,
    <<"fe1271_sub", r, r, Loc("dot_const", "t")>>,
    <<"fe1271_mulconst", Loc("dot_const", "t"), x2, k3>>,
    <<"fe1271_sub", r, r, Loc("dot_const", "t")>>,
    <<"fe1271_mulconst", Loc("dot_const", "t"), x3, k4>>,
    <<"fe1271_add", r, r, Loc("dot_const", "t")>>>>

\* r = (B11, B22, B33, B44), with the scratch kpoints t0 and t1
bii_values(r, t0, t1, sP, hQ) ==
  sqr4(t0, sP)
  \o sqr4(r, hQ)
  \o mul4_const(t0, ehat)
  \o mul4_const(r, ehat)
  \o <<<<"fe1271_neg", PX(t0)>>,
       <<"fe1271_neg", PX(r)>>>>
  \o dot(PX(t1), PX(t0), PY(t0), PZ(t0), PT(t0), PX(r), PY(r), PZ(r), PT(r))
  \o dot(PY(t1), PX(t0), PY(t0), PZ(t0), PT(t0), PY(r), PX(r), PT(r), PZ(r))
  \o dot(PZ(t1), PX(t0), PZ(t0), PY(t0), PT(t0), PZ(r), PX(r), PT(r), PY(r))
  \o dot(PT(t1), PX(t0), PT(t0), PY(t0), PZ(t0), PT(r), PX(r), PZ(r), PY(r))
  \o dot_const(PX(r), PX(t1), PY(t1), PZ(t1), PT(t1))
  \o dot_const(PY(r), PY(t1), PX(t1), PT(t1), PZ(t1))
  \o dot_const(PZ(r), PZ(t1), PT(t1), PX(t1), PY(t1))
  \o dot_const(PT(r), PT(t1), PZ(t1), PY(t1), PX(t1))
  \o mul4_const(r, muhat)
  \o <<<<"fe1271_neg", PX(r)>>>>

bij_value(r, t, P1, P2, P3, P4, Q1, Q2, Q3, Q4, c1, c2, c3, c4) ==
  <<<<"fe1271_mul", r, P1, P2>>,
    <<"fe1271_mul", PX(t), Q1, Q2>>,
    <<"fe1271_mul", PY(t), P3, P4>>,
    <<"fe1271_sub", r, r, PY(t)>>,
    <<"fe1271_mul", PZ(t), Q3, Q4>>,
    <<"fe1271_sub", PX(t), PX(t), PZ(t)>>,
    <<"fe1271_mul", r, r, PX(t)>>,
    <<"fe1271_mul", PX(t), PY(t), PZ(t)>>,
    <<"fe1271_mulconst", r, r, c3>>,
    <<"fe1271_mulconst", r, r, c4>>>>
  \o fe1271_sum(PY(t), PZ(t), c3, c4, c1, c2)
  \o <<<<"fe1271_mul", PX(t), PX(t), PY(t)>>,
       <<"fe1271_sub", r, PX(t), r>>,
       <<"fe1271_mulconst", r, r, c1>>,
       <<"fe1271_mulconst", r, r, c2>>>>
  \o fe1271_sum(PY(t), PZ(t), c2, c4, c1, c3)
  \o <<<<"fe1271_mul", r, r, PY(t)>>>>
  \o fe1271_sum(PY(t), PZ(t), c2, c3, c1, c4)
  \o <<<<"fe1271_mul", r, r, PY(t)>>>>

\* the curve constant C of quad
C == FeLoad(<<67, 168, 221, 205, 216, 227, 247, 70,
              221, 162, 32, 163, 239, 14, 245, 64>>, 0)

\* the int ret takes 0 if Bjj*R1^2 - 2*C*Bij*R1*R2 + Bii*R2^2 = 0, 1 otherwise
quad(ret, Bij, t, Bjj, Bii, R1, R2) ==
  <<<<"const", Loc("quad", "C"), C>>,
    <<"fe1271_square", PX(t), R1>>,
    <<"fe1271_mul", PX(t), Bjj, PX(t)>>,
    <<"fe1271_mul", PY(t), R1, R2>>,
    <<"fe1271_mul", PY(t), Bij, PY(t)>>,
    <<"fe1271_mul", PY(t), Loc("quad", "C"), PY(t)>>,
    <<"fe1271_add", PY(t), PY(t), PY(t)>>,
    <<"fe1271_sub", PX(t), PX(t), PY(t)>>,
    <<"fe1271_square", PY(t), R2>>,
    <<"fe1271_mul", PY(t), Bii, PY(t)>>,
    <<"fe1271_add", PX(t), PX(t), PY(t)>>,
    <<"fe1271_zeroness", ret, PX(t)>>>>

\* "v |= quad(...)" of check; the int q keeps what this quad returned
check_quad(q, Bij, t, Bjj, Bii, R1, R2) ==
  quad(q, Bij, t, Bjj, Bii, R1, R2)
  \o <<<<"or", Loc("check", "v"), Loc("check", "v"), q>>>>

\* check from "fe1271_H(&R->X)" on
check_quads(ret, sP, hQ, R, t) ==
  fe1271_H(R)
  \o bij_value(Loc("check", "Bij"), t, PX(sP), PY(sP), PZ(sP), PT(sP),
               PX(hQ), PY(hQ), PZ(hQ), PT(hQ), muhat[1], muhat[2], muhat[3], muhat[4])
  \o check_quad(Loc("check", "q12"), Loc("check", "Bij"), t,
                PY("check.Bii"), PX("check.Bii"), PX(R), PY(R))
  \o bij_value(Loc("check", "Bij"), t, PX(sP), PZ(sP), PY(sP), PT(sP),
               PX(hQ), PZ(hQ), PY(hQ), PT(hQ), muhat[1], muhat[3], muhat[2], muhat[4])
  \o check_quad(Loc("check", "q13"), Loc("check", "Bij"), t,
                PZ("check.Bii"), PX("check.Bii"), PX(R), PZ(R))
  \o bij_value(Loc("check", "Bij"), t, PX(sP), PT(sP), PY(sP), PZ(sP),
               PX(hQ), PT(hQ), PY(hQ), PZ(hQ), muhat[1], muhat[4], muhat[2], muhat[3])
  \o check_quad(Loc("check", "q14"), Loc("check", "Bij"), t,
                PT("check.Bii"), PX("check.Bii"), PX(R), PT(R))
  \o bij_value(Loc("check", "Bij"), t, PY(sP), PZ(sP), PX(sP), PT(sP),
               PY(hQ), PZ(hQ), PX(hQ), PT(hQ), muhat[2], muhat[3], muhat[1], muhat[4])
  \o <<<<"fe1271_neg", Loc("check", "Bij")>>>>
  \o check_quad(Loc("check", "q23"), Loc("check", "Bij"), t,
                PZ("check.Bii"), PY("check.Bii"), PY(R), PZ(R))
  \o bij_value(Loc("check", "Bij"), t, PY(sP), PT(sP), PX(sP), PZ(sP),
               PY(hQ), PT(hQ), PX(hQ), PZ(hQ), muhat[2], muhat[4], muhat[1], muhat[3])
  \o <<<<"fe1271_neg", Loc("check", "Bij")>>>>
  \o check_quad(Loc("check", "q24"), Loc("check", "Bij"), t,
                PT("check.Bii"), PY("check.Bii"), PY(R), PT(R))
  \o bij_value(Loc("check", "Bij"), t, PZ(sP), PT(sP), PX(sP), PY(sP),
               PZ(hQ), PT(hQ), PX(hQ), PY(hQ), muhat[3], muhat[4], muhat[1], muhat[2])
  \o <<<<"fe1271_neg", Loc("check", "Bij")>>>>
  \o check_quad(Loc("check", "q34"), Loc("check", "Bij"), t,
                PT("check.Bii"), PZ("check.Bii"), PZ(R), PT(R))
  \o <<<<"int_copy", ret, Loc("check", "v")>>>>

\* check(sP, hQ, R, t, xr) on four kpoints and the 32 bytes xr; the int ret
\* takes the value returned, and the int dec of check what decompress
\* returned
check(ret, sP, hQ, R, t, xr) ==
  <<<<"int", Loc("check", "v"), 0>>>>
  \o fe1271_H(sP)
  \o fe1271_H(hQ)
  \o bii_values("check.Bii", t, R, sP, hQ)
  \o decompress(Loc("check", "dec"), R, t, xr)
  \o <<<<"if", Loc("check", "dec"),
         <<<<"int", ret, 1>>>>,
         check_quads(ret, sP, hQ, R, t)>>>>

(***************************************************************************)
(* The Montgomery ladder.  The loop of ladder_250 is cut into its          *)
(* iterations; the frame l of the ladder holds the kpoints it was called   *)
(* on (xp, xq, xd), the scalar n, the loop counter i and the ints bit and  *)
(* prevbit.                                                                *)
(***************************************************************************)
\* (n[i >> 3] >> (i & 0x07)) & 1
ScalarBit(n, i) == (n[(i \div 8) + 1] \div (2 ^ (i % 8))) % 2

\* index of the first scalar bit the ladder processes
LadderTop == 250

\* the frame of ladder_250(xp, xq, xd, n) at the head of its loop
ladder_250_frame(xp, xq, xd, n) ==
  [xp |-> xp, xq |-> xq, xd |-> xd, n |-> n, i |-> LadderTop, prevbit |-> 0,
   bit |-> 0]

\* ladder_250 up to its loop: xp is zeroed and its first words are set
ladder_250_init(xp) ==
  <<<<"set_const", PX(xp), mu_1>>,
    <<"set_const", PY(xp), mu_2>>,
    <<"set_const", PZ(xp), mu_3>>,
    <<"set_const", PT(xp), mu_4>>>>

\* swap = bit ^ prevbit
ladder_250_swap(l) == (ScalarBit(l.n, l.i) + l.prevbit) % 2

\* sizeof(kpoint)
SizeofKpoint == 64

\* one iteration of the loop of ladder_250 in the verifier-only build:
\* "if (swap) wam_swap(xp, xq, sizeof(kpoint))"
ladder_250_loop_v(l) ==
  <<<<"fe1271_neg", PX(l.xq)>>>>
  \o (IF ladder_250_swap(l) # 0
      THEN <<<<"wam_swap", l.xp, l.xq, SizeofKpoint>>>> ELSE <<>>)
  \o xDBLADD(l.xp, l.xq, l.xd)

\* one iteration with xq negated after the swap, not before it
ladder_250_loop_late(l) ==
  <<<<"ct_swap", l.xp, l.xq, ladder_250_swap(l)>>,
    <<"fe1271_neg", PX(l.xq)>>>>
  \o xDBLADD(l.xp, l.xq, l.xd)

\* one iteration of the loop of ladder_250 (CONF_QDSA_FULL)
ladder_250_loop(l) ==
  <<<<"fe1271_neg", PX(l.xq)>>,
    <<"ct_swap", l.xp, l.xq, ladder_250_swap(l)>>>>
  \o xDBLADD(l.xp, l.xq, l.xd)

\* the frame after one iteration
ladder_250_next(l) ==
  [l EXCEPT !.i = @ - 1, !.prevbit = ScalarBit(l.n, l.i), !.bit = ScalarBit(l.n, l.i)]

\* ladder_250 after its loop in the verifier-only build:
\* "if (bit) wam_swap(xp, xq, sizeof(kpoint))"
ladder_250_exit_v(l) ==
  <<<<"fe1271_neg", PX(l.xp)>>>>
  \o (IF l.bit # 0 THEN <<<<"wam_swap", l.xp, l.xq, SizeofKpoint>>>> ELSE <<>>)

\* ladder_250 after its loop, were the last swap never to exchange
ladder_250_exit_0(l) ==
  <<<<"fe1271_neg", PX(l.xp)>>,
    <<"ct_swap", l.xp, l.xq, 0>>>>

\* ladder_250 after its loop: xp = n*xq and xq = (n+1)*xq
ladder_250_exit(l) ==
  <<<<"fe1271_neg", PX(l.xp)>>,
    <<"ct_swap", l.xp, l.xq, l.bit>>>>

\* ladder_base_250 that unwraps the static bpw in place and copies it to xq
ladder_base_250_init_static(xp) ==
  xUNWRAP("bpw", "bpw")
  \o <<<<"fe1271_copy", PX("ladder_base_250.xq"), PX("bpw")>>,
       <<"fe1271_copy", PY("ladder_base_250.xq"), PY("bpw")>>,
       <<"fe1271_copy", PZ("ladder_base_250.xq"), PZ("bpw")>>,
       <<"fe1271_copy", PT("ladder_base_250.xq"), PT("bpw")>>>>
  \o ladder_250_init(xp)

\* ladder_base_250 up to the loop of ladder_250: its local xq, unwrapped
\* from the static bpw, and the head of ladder_250(xp, &xq, &bpw, n)
ladder_base_250_init(xp) ==
  xUNWRAP("ladder_base_250.xq", "bpw") \o ladder_250_init(xp)

ladder_base_250_frame(xp, n) == ladder_250_frame(xp, "ladder_base_250.xq", "bpw", n)

(***************************************************************************)
(* Scalars: 256- and 512-bit integers in uint32_t arrays, here the bytes   *)
(* of those arrays.  Word-wise carries and borrows are rippled byte by     *)
(* byte, which gives the same bytes.                                       *)
(***************************************************************************)
\* the 32 bytes of a 256-bit product held in limbs
Store32(t) ==
  LET byte == [j \in Int |-> StoreByte(t, j)]
  IN Tabulate(byte, 0, 31)

\* bigint_mul on the four words at byte offset xo of x and yo of y: the
\* eight words of the product
MulWords(x, xo, y, yo) == Store32(bigint_mul(FeLoad(x, xo), FeLoad(y, yo)))

\* the carry out of word 15 that large_add(x, y, os) drops
large_add_carry(x, y, os) ==
  LET d == [k \in Int |->
             x[k + 1]
             + (IF k >= 4 * os /\ k < 4 * os + 32 THEN y[k - 4 * os + 1] ELSE 0)]
  IN CASE Len(x) = 64 /\ Len(y) >= 32 ->
       Normalise(Tabulate(d, 0, 63) \o <<0>>, 256, 65)[65]

\* x += y from word os on: x is 16 words, y is 8 words; the carry out of
\* word 15 is dropped
large_add(x, y, os) ==
  LET d == [k \in Int |->
             x[k + 1]
             + (IF k >= 4 * os /\ k < 4 * os + 32 THEN y[k - 4 * os + 1] ELSE 0)]
  IN CASE Len(x) = 64 /\ Len(y) >= 32 -> Normalise(Tabulate(d, 0, 63), 256, 64)

\* the 16 words of the product of the 8-word x and y: r is the low product
\* with its upper 8 words cleared, and the three other products are added in
large_mul(x, y) ==
  CASE Len(x) >= 32 /\ Len(y) >= 32 ->
    large_add(large_add(large_add(MulWords(x, 0, y, 0) \o ZeroBytes(32),
                                  MulWords(x, 0, y, 16), 4),
                        MulWords(x, 16, y, 0), 4),
              MulWords(x, 16, y, 16), 8)

\* word i of the byte array b, as its 4 bytes
Word(b, i) == SubSeq(b, 4 * i + 1, 4 * i + 4)

\* the 5 base-256 digits of t0 = x[i] + carry + w; digit 5 is t0 >> 32
WordSum(xw, w, carry) ==
  Normalise(<<xw[1] + w[1] + carry, xw[2] + w[2], xw[3] + w[3], xw[4] + w[4], 0>>,
            256, 5)

\* the body of the loops of large_add without "t0 += carry"
large_add_word_lost(st, i, w) ==
  LET t0 == WordSum(Word(st.x, i), w, 0)
  IN [x |-> SubSeq(st.x, 1, 4 * i) \o SubSeq(t0, 1, 4)
              \o SubSeq(st.x, 4 * i + 5, Len(st.x)),
      carry |-> t0[5] % 2,
      high |-> Append(st.high, t0[5]),
      words |-> st.words \cup {i}]

\* the body of the loops of large_add on word i of x: t0 = x[i] + carry + w,
\* carry = (t0 >> 32) & 1, x[i] = (uint32_t)t0.  high keeps t0 >> 32 of every
\* word, words the indices of x the loop has read and written
large_add_word(st, i, w) ==
  LET t0 == WordSum(Word(st.x, i), w, st.carry)
  IN [x |-> SubSeq(st.x, 1, 4 * i) \o SubSeq(t0, 1, 4)
              \o SubSeq(st.x, 4 * i + 5, Len(st.x)),
      carry |-> t0[5] % 2,
      high |-> Append(st.high, t0[5]),
      words |-> st.words \cup {i}]

RECURSIVE large_add_low(_, _, _, _)
\* for (i = 0; i < 8; i++) on x[i + os] and y[i]
large_add_low(st, y, os, i) ==
  IF i >= 8 THEN st
  ELSE large_add_low(large_add_word(st, i + os, Word(y, i)), y, os, i + 1)

RECURSIVE large_add_high(_, _)
\* for (i = 8 + os; i < 16; i++) on x[i]
large_add_high(st, i) ==
  IF i >= 16 THEN st
  ELSE large_add_high(large_add_word(st, i, <<0, 0, 0, 0>>), i + 1)

\* large_add word by word, as the two loops of the source run it
large_add_loops(x, y, os) ==
  large_add_high(large_add_low([x |-> x, carry |-> 0, high |-> <<>>, words |-> {}],
                               y, os, 0),
                 8 + os)

\* L = { 0x840C05BD, 0x47730B4B, 0xF9A154FF, 0xD2C27FC9, 0x20C75294,
\*       0x334D698, 0x0, 0x0 }
L == <<189,   5,  12, 132,  75,  11, 115,  71, 255,  84, 161, 249, 201, 127, 194, 210,
     148,  82, 199,  32, 152, 214,  52,   3,   0,   0,   0,   0,   0,   0,   0,   0>>

\* L6 = { 0x3016F40, 0xDCC2D2E1, 0x68553FD1, 0xB09FF27E, 0x31D4A534,
\*        0xCD35A608, 0x0, 0x0 }
L6 == << 64, 111,   1,   3, 225, 210, 194, 220, 209,  63,  85, 104, 126, 242, 159, 176,
       52, 165, 212,  49,   8, 166,  53, 205,   0,   0,   0,   0,   0,   0,   0,   0>>

\* "wam_copy(&r[8], &temp[8], 32); large_add(r, temp, 0)" of large_red
RedAdd(r, temp) ==
  CASE Len(r) = 64 /\ Len(temp) = 64 ->
    large_add(SubSeq(r, 1, 32) \o SubSeq(temp, 33, 64), temp, 0)

\* one pass "large_mul(temp, r + 8, m); wam_copy(&r[8], &temp[8], 32);
\* large_add(r, temp, 0)" of large_red
RedFold(r, m) ==
  CASE Len(r) = 64 -> RedAdd(r, large_mul(SubSeq(r, 33, 64), m))

\* the loop "for (i = 0; i < n; i++)" of RedFold passes with L6
RECURSIVE RedFoldTimes(_, _)
RedFoldTimes(r, n) ==
  IF n = 0 THEN r ELSE RedFoldTimes(RedFold(r, L6), n - 1)

\* r[8] = (r[8] << 6) | ((r[7] & 0xfc000000) >> 26); r[7] &= 0x03ffffff
RedSplit250(r) ==
  [r EXCEPT ![32] = @ % 4,
            ![33] = ((r[33] * 64) % 256) + (r[32] \div 4),
            ![34] = ((r[34] * 64) % 256) + (r[33] \div 4),
            ![35] = ((r[35] * 64) % 256) + (r[34] \div 4),
            ![36] = ((r[36] * 64) % 256) + (r[35] \div 4)]

\* r[8] = (r[7] & 0x04000000) >> 26; r[7] &= 0x03ffffff
RedSplitBit(r) ==
  [r EXCEPT ![32] = @ % 4, ![33] = (r[32] \div 4) % 2,
            ![34] = 0, ![35] = 0, ![36] = 0]

\* "large_mul(temp, r + 8, L); r[8] = 0; large_add(r, temp, 0)"
RedLast(r) ==
  CASE Len(r) = 64 ->
    large_add([r EXCEPT ![33] = 0, ![34] = 0, ![35] = 0, ![36] = 0],
              large_mul(SubSeq(r, 33, 64), L), 0)

\* the carry out of the large_add of RedAdd, of RedFold and of RedLast
RedAddCarry(r, temp) ==
  CASE Len(r) = 64 /\ Len(temp) = 64 ->
    large_add_carry(SubSeq(r, 1, 32) \o SubSeq(temp, 33, 64), temp, 0)

RedFoldCarry(r, m) ==
  CASE Len(r) = 64 -> RedAddCarry(r, large_mul(SubSeq(r, 33, 64), m))

RedLastCarry(r) ==
  CASE Len(r) = 64 ->
    large_add_carry([r EXCEPT ![33] = 0, ![34] = 0, ![35] = 0, ![36] = 0],
                    large_mul(SubSeq(r, 33, 64), L), 0)

\* the carries out of the six large_add calls of large_red, in order
RedCarries(x) ==
  <<RedFoldCarry(RedFoldTimes(SubSeq(x, 1, 64), 0), L6),
    RedFoldCarry(RedFoldTimes(SubSeq(x, 1, 64), 1), L6),
    RedFoldCarry(RedFoldTimes(SubSeq(x, 1, 64), 2), L6),
    RedFoldCarry(RedFoldTimes(SubSeq(x, 1, 64), 3), L6),
    RedFoldCarry(RedSplit250(RedFoldTimes(SubSeq(x, 1, 64), 4)), L),
    RedLastCarry(RedSplitBit(RedFold(RedSplit250(RedFoldTimes(SubSeq(x, 1, 64), 4)), L)))>>

\* large_red with three passes of its loop
large_red_r_3(x) ==
  RedLast(RedSplitBit(RedFold(RedSplit250(RedFoldTimes(SubSeq(x, 1, 64), 3)), L)))

\* the 16 words of r as large_red leaves them
large_red_r(x) ==
  RedLast(RedSplitBit(RedFold(RedSplit250(RedFoldTimes(SubSeq(x, 1, 64), 4)), L)))

\* 512 -> 250 bit reduction modulo N: the 8 words written to res
large_red(x) ==
  CASE Len(x) >= 64 -> SubSeq(large_red_r(x), 1, 32)

\* N = { 0x7BF3FA43, 0xB88CF4B4, 0x65EAB00, 0x2D3D8036, 0xDF38AD6B,
\*       0xFCCB2967, 0xFFFFFFFF, 0x3FFFFFF }
N == << 67, 250, 243, 123, 180, 244, 140, 184,   0, 171,  94,   6,  54, 128,  61,  45,
     107, 173,  56, 223, 103,  41, 203, 252, 255, 255, 255, 255, 255, 255, 255,   3>>

\* the borrow out of word 7 that large_neg(x) drops: 1 when x > N
large_neg_borrow(x) ==
  LET d == [k \in Int |-> N[k + 1] + (255 - x[k + 1]) + (IF k = 0 THEN 1 ELSE 0)]
  IN CASE Len(x) = 32 -> 1 - Normalise(Tabulate(d, 0, 31) \o <<0>>, 256, 33)[33]

\* r = N - x on 8 words, the borrow out of word 7 dropped: N + ~x + 1
\* modulo 2^256
large_neg(x) ==
  LET d == [k \in Int |-> N[k + 1] + (255 - x[k + 1]) + (IF k = 0 THEN 1 ELSE 0)]
  IN CASE Len(x) = 32 -> Normalise(Tabulate(d, 0, 31), 256, 32)

\* t as scalar_ops holds it before its last reduction: N - (h*d mod N) in
\* the low 8 words, the upper 8 cleared, and r added
scalar_ops_t(r, h, d) ==
  large_add(large_neg(large_red(large_mul(h, d))) \o ZeroBytes(32), r, 0)

\* scalar_ops without the last reduction: the low 8 words of N - h*d + r
scalar_ops_unreduced(r, h, d) == SubSeq(scalar_ops_t(r, h, d), 1, 32)

\* scalar_ops(s, r, h, d) on the buffers of those names in m, which may be
\* one buffer under two names, statement by statement with its local t:
\* "large_red(s, t)" at the end
scalar_ops_5(m, s) == Put(m, s, large_red(m["scalar_ops.t"]))

\* "large_add(t, r->fe1.v, 0)"
scalar_ops_4(m, s, r) ==
  scalar_ops_5(Put(m, "scalar_ops.t", large_add(m["scalar_ops.t"], m[r], 0)), s)

\* "wam_zero(&t[8], 8 * 4); large_neg(t, s)"
scalar_ops_3(m, s, r) ==
  scalar_ops_4(Put(m, "scalar_ops.t", large_neg(m[s]) \o ZeroBytes(32)), s, r)

\* "large_red(s, t)"
scalar_ops_2(m, s, r) ==
  scalar_ops_3(Put(m, s, large_red(m["scalar_ops.t"])), s, r)

\* "large_mul(t, h, d)" and the rest
scalar_ops_at(m, s, r, h, d) ==
  scalar_ops_2(Put(m, "scalar_ops.t", large_mul(m[h], m[d])), s, r)

\* s = (r - h*d) mod N as qdsa_sign calls it, "scalar_ops(R.Z.v, &r, R.X.v,
\* R.Z.v)": s and d are the same words
scalar_ops(r, h, d) ==
  scalar_ops_at([n \in {"r", "R.X", "R.Z"} |->
                   CASE n = "r" -> r [] n = "R.X" -> h [] n = "R.Z" -> d],
                "R.Z", "r", "R.X", "R.Z")["R.Z"]

\* scalar_get32 that clears the top 6 bits and does not reduce
scalar_get32_mask(x) == [SubSeq(x, 1, 32) EXCEPT ![32] = @ % 4]

\* scalar_get32(r, x): the 32 bytes of x, 8 zero words above them, reduced
scalar_get32(x) == large_red(SubSeq(x, 1, 32) \o ZeroBytes(32))


(***************************************************************************)
(* Keccak-f[800] (the C version of kf800_permute) and the Bob Jr. sponge.  *)
(* A lane is the four bytes of its uint32_t, least significant first.      *)
(***************************************************************************)
BOBJR_RATE == 68
BOBJR_NROUNDS == 10
KF800_MAXR == 10

\* ~a & b on bytes
AndNot8(a, b) ==
  ((1 - BitOf(a, 0)) * BitOf(b, 0)) + 2 * ((1 - BitOf(a, 1)) * BitOf(b, 1))
  + 4 * ((1 - BitOf(a, 2)) * BitOf(b, 2)) + 8 * ((1 - BitOf(a, 3)) * BitOf(b, 3))
  + 16 * ((1 - BitOf(a, 4)) * BitOf(b, 4)) + 32 * ((1 - BitOf(a, 5)) * BitOf(b, 5))
  + 64 * ((1 - BitOf(a, 6)) * BitOf(b, 6)) + 128 * ((1 - BitOf(a, 7)) * BitOf(b, 7))

Xor32(x, y) ==
  <<Xor8(x[1], y[1]), Xor8(x[2], y[2]), Xor8(x[3], y[3]), Xor8(x[4], y[4])>>

AndNot32(x, y) ==
  <<AndNot8(x[1], y[1]), AndNot8(x[2], y[2]), AndNot8(x[3], y[3]),
    AndNot8(x[4], y[4])>>

\* byte j of (x << n) | (x >> (32 - n)), 0 < n < 32
RolByte(x, n, j) ==
  LET q == n \div 8
      s == n % 8
      hi == x[((j + 4 - q) % 4) + 1]
      lo == x[((j + 7 - q) % 4) + 1]
  IN ((hi * (2 ^ s)) % 256) + (lo \div (2 ^ (8 - s)))

ROL(x, n) == <<RolByte(x, n, 0), RolByte(x, n, 1), RolByte(x, n, 2), RolByte(x, n, 3)>>

\* the round constants of the 10-round build
kf800_rcs ==
  <<<<139, 128, 0, 128>>,
    <<139, 0, 0, 0>>,
    <<137, 128, 0, 0>>,
    <<3, 128, 0, 0>>,
    <<2, 128, 0, 0>>,
    <<128, 0, 0, 0>>,
    <<10, 128, 0, 0>>,
    <<10, 0, 0, 128>>,
    <<129, 128, 0, 128>>,
    <<128, 128, 0, 0>>>>

\* Theta: the column parities C[0..4]
kf800_theta_C(A) ==
  LET c == [x \in Int |->
             Xor32(Xor32(Xor32(Xor32(A[x + 1], A[x + 6]), A[x + 11]), A[x + 16]),
                   A[x + 21])]
  IN CASE Len(A) = 25 -> Tabulate(c, 0, 4)

\* Theta: D[x] = C[x - 1] ^ ROL(C[x + 1], 1), indices modulo 5
kf800_theta_D(Cc) ==
  LET d == [x \in Int |-> Xor32(Cc[((x + 4) % 5) + 1], ROL(Cc[((x + 1) % 5) + 1], 1))]
  IN CASE Len(Cc) = 5 -> Tabulate(d, 0, 4)

\* Theta: A[x + 5y] ^= D[x]
kf800_theta(A, D) ==
  LET a == [i \in Int |-> Xor32(A[i + 1], D[(i % 5) + 1])]
  IN CASE Len(A) = 25 /\ Len(D) = 5 -> Tabulate(a, 0, 24)

\* Rho and Pi: the lanes in the order the chain of the source visits them
\* (Y = A[1], X = A[10], A[10] = ROL(Y, 1); Y = X, X = A[7], ...; the last
\* lane written is A[1]), and the rotation of each move
kf800_pi ==
  <<1, 10, 7, 11, 17, 18, 3, 5, 16, 8, 21, 24, 4, 15, 23, 19, 13, 12, 2, 20, 14,
    22, 9, 6, 1>>

kf800_rho ==
  <<1, 3, 6, 10, 15, 21, 28, 4, 13, 23, 2, 14, 27, 9, 24, 8, 25, 11, 30, 18, 7,
    29, 20, 12>>

\* lane kf800_pi[k + 1] takes lane kf800_pi[k] rotated by kf800_rho[k]; lane 0
\* stays
kf800_rhopi(A) ==
  LET b == [j \in Int |->
             IF j = 0 THEN A[1]
             ELSE LET k == CHOOSE k \in 1..24 : kf800_pi[k + 1] = j
                  IN ROL(A[kf800_pi[k] + 1], kf800_rho[k])]
  IN CASE Len(A) = 25 -> Tabulate(b, 0, 24)

\* Chi: A[y + x] ^= ~A[y + x + 1] & A[y + x + 2], x modulo 5, on the values
\* the row held before
kf800_chi(A) ==
  LET a == [i \in Int |->
             Xor32(A[i + 1],
                   AndNot32(A[5 * (i \div 5) + ((i + 1) % 5) + 1],
                            A[5 * (i \div 5) + ((i + 2) % 5) + 1]))]
  IN CASE Len(A) = 25 -> Tabulate(a, 0, 24)

\* Iota: A[0] ^= kf800_rcs[r]
kf800_iota(A, r) ==
  CASE Len(A) = 25 -> [A EXCEPT ![1] = Xor32(@, kf800_rcs[r + 1])]

\* one round (constant index r) on the 25 lanes A
kf800_round(A, r) ==
  kf800_iota(kf800_chi(kf800_rhopi(kf800_theta(A, kf800_theta_D(kf800_theta_C(A))))), r)

RECURSIVE kf800_rounds(_, _)
kf800_rounds(A, r) ==
  IF r >= KF800_MAXR THEN A
  ELSE CASE Len(A) = 25 -> kf800_rounds(kf800_round(A, r), r + 1)

\* the 25 lanes of 100 bytes, and back
Lanes(s, i) ==
  LET lane == [k \in Int |-> SubSeq(s, 4 * k + 1, 4 * k + 4)]
  IN Tabulate(lane, i, 24)

Unlanes(A, i) ==
  LET byte == [k \in Int |-> A[(k \div 4) + 1][(k % 4) + 1]]
  IN Tabulate(byte, 4 * i, 99)

\* nr rounds on the 100 bytes A; the unsigned loop counter KF800_MAXR - nr
\* wraps for nr > KF800_MAXR, and then no round runs
kf800_permute(A, nr) ==
  CASE Len(A) = 100 ->
    IF nr > KF800_MAXR THEN A
    ELSE Unlanes(kf800_rounds(Lanes(A, 0), KF800_MAXR - nr), 0)

\* a bobjr_ctx is [ptr, state]
bobjr_init(ctx) == [ptr |-> 0, state |-> ZeroBytes(100)]

\* bobjr_absorb_wa that permutes after every chunk
bobjr_absorb_chunk_always(ctx, data, cpy) ==
  [ptr |-> 0,
   state |-> kf800_permute(wam_copy(ctx.state, ctx.ptr, data, cpy), BOBJR_NROUNDS)]

\* the body of the loop of bobjr_absorb_wa for a chunk of cpy bytes: the
\* context after it
bobjr_absorb_chunk(ctx, data, cpy) ==
  IF ctx.ptr + cpy = BOBJR_RATE
  THEN [ptr |-> 0,
        state |-> kf800_permute(wam_copy(ctx.state, ctx.ptr, data, cpy), BOBJR_NROUNDS)]
  ELSE [ptr |-> ctx.ptr + cpy, state |-> wam_copy(ctx.state, ctx.ptr, data, cpy)]

\* cpy = len, whatever room the rate has
bobjr_cpy_len(ptr, len) == len

\* cpy = len < BOBJR_RATE - ptr ? len : BOBJR_RATE - ptr
bobjr_cpy(ptr, len) == IF len < BOBJR_RATE - ptr THEN len ELSE BOBJR_RATE - ptr

RECURSIVE bobjr_absorb_wa(_, _, _)
bobjr_absorb_wa(ctx, data, len) ==
  IF len = 0 THEN ctx
  ELSE CASE Len(ctx.state) = 100 /\ Len(data) >= len ->
    bobjr_absorb_wa(bobjr_absorb_chunk(ctx, data, bobjr_cpy(ctx.ptr, len)),
                    SubSeq(data, bobjr_cpy(ctx.ptr, len) + 1, Len(data)),
                    len - bobjr_cpy(ctx.ptr, len))

\* bobjr_finish_wa without its wam_zero
bobjr_pad_nozero(ctx) ==
  [ctx.state EXCEPT ![ctx.ptr + 1] = 1,
                    ![BOBJR_RATE] = IF @ >= 128 THEN @ ELSE @ + 128]

\* the padded block of bobjr_finish_wa, before the permutation
bobjr_pad(ctx) ==
  [wam_zero(ctx.state, ctx.ptr, BOBJR_RATE - ctx.ptr)
     EXCEPT ![ctx.ptr + 1] = 1,
            ![BOBJR_RATE] = IF @ >= 128 THEN @ ELSE @ + 128]

bobjr_finish_wa(ctx) ==
  CASE Len(ctx.state) = 100 ->
    [ptr |-> 0, state |-> kf800_permute(bobjr_pad(ctx), BOBJR_NROUNDS)]

\* h = H(R||Q||M) reduced modulo N
scalar_get_hrqm(r, q, m) ==
  CASE Len(r) = 32 /\ Len(q) = 32 /\ Len(m) = 32 ->
    large_red(bobjr_finish_wa(
      bobjr_absorb_wa(
        bobjr_absorb_wa(
          bobjr_absorb_wa(bobjr_init([ptr |-> 0, state |-> <<>>]), r, 32),
          q, 32),
        m, 32)).state)

(***************************************************************************)
(* The API of src/qdsv.c.  A call that runs a ladder is cut at the ladder  *)
(* loop: the part before it, the loop iterations, the part after it.  The  *)
(* locals of the calls are the fields of a frame f; a field keeps what the *)
(* last call wrote to it (nothing clears the stack between calls).         *)
(***************************************************************************)
Pt0 == KPoint(FeZero, FeZero, FeZero, FeZero)

Lad0 == [ladder_250_frame("R", "R", "R", ZeroBytes(32)) EXCEPT !.i = -1]

\* the kpoints that are locals of the API functions
Points == {"R", "sP", "hQ", "pxw", "PK", "SS", "pkw"}

\* the objects of static storage that are kpoints: bpw of ladder_base_250
Statics == {"bpw"}

StaticNames == Statics \X {"X", "Y", "Z", "T"}

\* static storage as the program starts
Static0 == [n \in StaticNames |-> bpw[n[2]]]

\* the field elements as the program starts: the statics, and the locals
Mem0 ==
  [n \in (Points \cup Statics) \X {"X", "Y", "Z", "T"} |->
     IF n \in StaticNames THEN Static0[n] ELSE FeZero]

\* ctx, r, rx: the locals of qdsa_sign and qdsa_keypair; s and h: the
\* scalars verify and sign keep in the halves of R; pkc: the ckpoint of
\* qdsa_dh_exchange; dec: the value the last call of decompress by an API
\* function returned; lad: the ladder; mem: the field elements
Frame0 ==
  [ctx |-> [ptr |-> 0, state |-> ZeroBytes(100)], r |-> ZeroBytes(32),
   rx |-> ZeroBytes(32), s |-> ZeroBytes(32), h |-> ZeroBytes(32),
   pkc |-> ZeroBytes(32), dec |-> 0, lad |-> Lad0, mem |-> Mem0]

\* the 32 bytes of the ckpoint c, whose halves are the elements fe1 and fe2
CkBytes(m, c) == FeStore(m[Loc(c, "fe1")]) \o FeStore(m[Loc(c, "fe2")])

\* one iteration of the ladder the frame f is in
ladder_250_step(f) ==
  [f EXCEPT !.mem = RunAll(@, ladder_250_loop(f.lad)), !.lad = ladder_250_next(@)]

\* "ladder_base_250(xp, n)" down to the loop
ladder_base_250_begin(f, xp, n) ==
  [f EXCEPT !.mem = RunAll(@, ladder_base_250_init(xp)),
            !.lad = ladder_base_250_frame(xp, n)]

\* "ladder_base_250(&R, rx.fe1.b)" down to the loop, rx holding the scalar d
qdsa_keypair_d(f, d) == ladder_base_250_begin([f EXCEPT !.rx = d], "R", d)

\* qdsa_keypair from "wam_copy(sk, ctx.state, 64)" down to the loop
qdsa_keypair_sk(f, ctx) ==
  [sk |-> Slice(ctx.state, 0, 64),
   f |-> qdsa_keypair_d([f EXCEPT !.ctx = ctx], scalar_get32(Slice(ctx.state, 32, 32)))]

\* qdsa_keypair down to the loop of the ladder: [sk, f]
qdsa_keypair_begin(f, seed) ==
  qdsa_keypair_sk(f, bobjr_finish_wa(bobjr_absorb_wa(bobjr_init(f.ctx), seed, 32)))

\* "wam_copy(pk, &rx, 32); return 0"
qdsa_keypair_pk(f) ==
  [pk |-> CkBytes(f.mem, "rx"), ret |-> 0, f |-> [f EXCEPT !.rx = CkBytes(f.mem, "rx")]]

\* the end of the ladder and "compress(&rx.fe1, &rx.fe2, &R)"
ladder_compress_rx(f) ==
  [f EXCEPT !.mem = RunAll(@, ladder_250_exit(f.lad)
                              \o compress(Loc("rx", "fe1"), Loc("rx", "fe2"), "R"))]

\* qdsa_keypair from the end of the ladder: [pk, ret, f]
qdsa_keypair_end(f) == qdsa_keypair_pk(ladder_compress_rx(f))

\* qdsa_sign from "ladder_base_250(&R, r.fe1.b)" down to the loop
qdsa_sign_r(f, r) == ladder_base_250_begin([f EXCEPT !.r = r], "R", r)

\* qdsa_sign from large_red down to the loop
qdsa_sign_ctx(f, ctx) == qdsa_sign_r([f EXCEPT !.ctx = ctx], large_red(ctx.state))

\* qdsa_sign that absorbs all 64 bytes of sk into the nonce
qdsa_sign_begin_sk64(f, msg, sk) ==
  qdsa_sign_ctx(f, bobjr_finish_wa(
                     bobjr_absorb_wa(bobjr_absorb_wa(bobjr_init(f.ctx), sk, 64),
                                     msg, 32)))

\* qdsa_sign down to the loop of the ladder: the frame
qdsa_sign_begin(f, msg, sk) ==
  qdsa_sign_ctx(f, bobjr_finish_wa(
                     bobjr_absorb_wa(
                       bobjr_absorb_wa(bobjr_init(f.ctx), Slice(sk, 0, 32), 32),
                       msg, 32)))

\* "wam_copy(sig + 32, &R.Z, 32); return 0"
qdsa_sign_s(f, s) == [sig |-> f.rx \o s, ret |-> 0, f |-> [f EXCEPT !.s = s]]

\* "scalar_get32(R.Z.v, sk + 32); scalar_ops(R.Z.v, &r, R.X.v, R.Z.v)": d
\* and s share R.Z
qdsa_sign_h(f, h, sk) ==
  qdsa_sign_s([f EXCEPT !.h = h], scalar_ops(f.r, h, scalar_get32(Slice(sk, 32, 32))))

\* qdsa_sign that hashes (Q, R, M) in the place of (R, Q, M)
qdsa_sign_rx_qrm(f, msg, pk, sk) ==
  qdsa_sign_h([f EXCEPT !.rx = CkBytes(f.mem, "rx")],
              scalar_get_hrqm(pk, CkBytes(f.mem, "rx"), msg), sk)

\* qdsa_sign from "wam_copy(sig, &rx, 32)" on
qdsa_sign_rx(f, msg, pk, sk) ==
  qdsa_sign_h([f EXCEPT !.rx = CkBytes(f.mem, "rx")],
              scalar_get_hrqm(CkBytes(f.mem, "rx"), pk, msg), sk)

\* qdsa_sign from the end of the ladder: [sig, ret, f]
qdsa_sign_end(f, msg, pk, sk) ==
  qdsa_sign_rx(ladder_compress_rx(f), msg, pk, sk)

\* "xWRAP(&pxw, &sP); ladder_250(&hQ, &sP, &pxw, R.Z.b)" down to the loop
qdsa_verify_h(f, h) ==
  [f EXCEPT !.h = h,
            !.mem = RunAll(@, xWRAP("pxw", "sP") \o ladder_250_init("hQ")),
            !.lad = ladder_250_frame("hQ", "sP", "pxw", h)]

\* qdsa_verify after decompress of pk: [returned, ret, f]
qdsa_verify_pk(f, sig, pk, msg) ==
  IF f.mem[Loc("qdsa_verify", "dec")] # 0
  THEN [returned |-> TRUE, ret |-> 1,
        f |-> [f EXCEPT !.dec = f.mem[Loc("qdsa_verify", "dec")]]]
  ELSE [returned |-> FALSE, ret |-> 0,
        f |-> qdsa_verify_h([f EXCEPT !.dec = 0,
                                      !.s = scalar_get32(Slice(sig, 32, 32))],
                            scalar_get_hrqm(Slice(sig, 0, 32), pk, msg))]

\* qdsa_verify down to the loop of the first ladder: [returned, ret, f]
qdsa_verify_begin(f, sig, pk, msg) ==
  qdsa_verify_pk([f EXCEPT !.mem = RunAll(@, decompress(Loc("qdsa_verify", "dec"),
                                                        "sP", "hQ", pk))],
                 sig, pk, msg)

\* qdsa_verify between its two ladders: hQ = [h]Q is in, [s]P starts
qdsa_verify_mid(f) ==
  [f EXCEPT !.mem = RunAll(@, ladder_250_exit(f.lad) \o ladder_base_250_init("sP")),
            !.lad = ladder_base_250_frame("sP", f.s)]

\* the results of the six quad calls of check, in order
check_results(m) ==
  <<m[Loc("check", "q12")], m[Loc("check", "q13")], m[Loc("check", "q14")],
    m[Loc("check", "q23")], m[Loc("check", "q24")], m[Loc("check", "q34")]>>

\* what qdsa_verify returns after check: ret the value, dec what decompress
\* returned in check, quads the results of the quad calls made
qdsa_verify_ret(f, sig) ==
  [ret |-> f.mem[Loc("qdsa_verify", "ret")],
   dec |-> f.mem[Loc("check", "dec")],
   quads |-> IF f.mem[Loc("check", "dec")] # 0 THEN <<>> ELSE check_results(f.mem),
   sig |-> sig,
   f |-> [f EXCEPT !.dec = f.mem[Loc("check", "dec")]]]

\* qdsa_verify from the end of the second ladder
qdsa_verify_end(f, sig) ==
  qdsa_verify_ret(
    [f EXCEPT !.mem = RunAll(@, ladder_250_exit(f.lad)
                                \o check(Loc("qdsa_verify", "ret"), "sP", "hQ", "R",
                                         "pxw", Slice(sig, 0, 32)))],
    sig)

\* qdsa_dh_keygen down to the loop of the ladder
qdsa_dh_keygen_d(f, d) == ladder_base_250_begin([f EXCEPT !.rx = d], "R", d)

qdsa_dh_keygen_begin(f, sk) == qdsa_dh_keygen_d(f, scalar_get32(sk))

\* qdsa_dh_keygen from the end of the ladder: [pk, ret, f]
qdsa_dh_keygen_end(f) == qdsa_keypair_pk(ladder_compress_rx(f))

\* "scalar_get32(pkc.fe1.v, sk); ladder_250(&SS, &PK, xd, pkc.fe1.b)" down to
\* the loop
qdsa_dh_exchange_n(f, xd, n) ==
  [f EXCEPT !.pkc = n, !.dec = f.mem[Loc("qdsa_dh_exchange", "dec")],
            !.mem = RunAll(@, ladder_250_init("SS")),
            !.lad = ladder_250_frame("SS", "PK", xd, n)]

\* "decompress(&PK, &SS, &pkc); xWRAP(&pkw, &PK)" with u what PK held
qdsa_dh_exchange_pk(f, pk, u) ==
  [f EXCEPT !.mem = RunAll(PutPt(@, "PK", u),
                           decompress(Loc("qdsa_dh_exchange", "dec"), "PK", "SS", pk)
                           \o xWRAP("pkw", "PK"))]

\* qdsa_dh_exchange that hands the ladder the wrapped base point in the place
\* of the wrapped public key
qdsa_dh_exchange_begin_bpw(f, pk, sk, u) ==
  qdsa_dh_exchange_n(qdsa_dh_exchange_pk(f, pk, u), "bpw", scalar_get32(sk))

\* qdsa_dh_exchange down to the loop of the ladder.  PK and SS are not
\* initialised: u is what PK held at the call, and decompress leaves a part
\* of it in place when it rejects (xWRAP then reads it).
qdsa_dh_exchange_begin(f, pk, sk, u) ==
  qdsa_dh_exchange_n(qdsa_dh_exchange_pk(f, pk, u), "pkw", scalar_get32(sk))

\* the end of the ladder and "compress(&pkc.fe1, &pkc.fe2, &SS)"
ladder_compress_pkc(f) ==
  [f EXCEPT !.mem = RunAll(@, ladder_250_exit(f.lad)
                              \o compress(Loc("pkc", "fe1"), Loc("pkc", "fe2"), "SS"))]

\* "wam_copy(ss, &pkc, 32)" and the return of the value r
qdsa_dh_exchange_ss(f, r) ==
  [ss |-> CkBytes(f.mem, "pkc"), ret |-> r,
   f |-> [f EXCEPT !.pkc = CkBytes(f.mem, "pkc")]]

\* qdsa_dh_exchange that returns what decompress returned
qdsa_dh_exchange_end_dec(f) ==
  qdsa_dh_exchange_ss(ladder_compress_pkc(f), f.dec)

\* qdsa_dh_exchange from the end of the ladder: [ss, ret, f]
qdsa_dh_exchange_end(f) ==
  qdsa_dh_exchange_ss(ladder_compress_pkc(f), 0)

(***************************************************************************)
(* The callers.  A run is one caller's script: keypair, sign, then either  *)
(* a second sign on varied arguments or a verify of a possibly tampered    *)
(* signature; or a Diffie-Hellman exchange between two parties.            *)
(***************************************************************************)
VARIABLES
  pc,      \* the call in progress, "idle" between calls
  script,  \* how far the caller has got
  buf,     \* the caller's buffers
  arg,     \* the buffers of the second sign, of the verify, of the bad exchange
  fr,      \* the stack frame of the call in progress or last made
  ret,     \* the value the last call returned, -1 before the first
  obs,     \* what the last verify observed: decompress results, quad results
  par      \* two threads that verify concurrently

vars == <<pc, script, buf, arg, fr, ret, obs, par>>

NumSeeds == 1
NumMsgs == 1

\* the k-th 32-byte test string: bytes j..32
TestBytes(k, j) ==
  LET byte == [i \in Int |-> (k * 89 + i * 37 + ((k * i) % 7) + 13) % 256]
  IN Tabulate(byte, j, 32)

Seeds == {TestBytes(k, 1) : k \in 1..NumSeeds}
Msgs == {TestBytes(100 + k, 1) : k \in 1..NumMsgs}

\* the secret of the other Diffie-Hellman party
Peer(seed) == [seed EXCEPT ![1] = (@ + 1) % 256, ![32] = (@ + 128) % 256]

FillBytes(n, v) ==
  LET byte == [i \in Int |-> v]
  IN Tabulate(byte, 1, n)

\* 32 bytes compress never writes (l1 would be 2^127 - 1 with tau set): what
\* an output buffer holds before the call
Unwritten == FillBytes(32, 255)

\* a compressed point decompress rejects: l1 = l2 = 0, tau = 0, sigma = 1
BadPoint == [ZeroBytes(32) EXCEPT ![32] = 128]

\* what an uninitialised kpoint may hold
Uninit == {Pt0, KPoint(set_const(1), set_const(2), set_const(3), set_const(5))}

FlipByte(b, j) == [b EXCEPT ![j] = (@ + 1) % 256]

ReSignTags == {"same", "pk", "skhi", "msg"}
VerifyTags == {"none", "msg", "s", "R", "pk"}

\* the arguments of the second sign: the first call's, one of them changed
ReSignArgs(tag) ==
  [tag |-> tag, sig |-> Unwritten, ss |-> Unwritten,
   msg |-> IF tag = "msg" THEN FlipByte(buf.msg, 1) ELSE buf.msg,
   pk |-> IF tag = "pk" THEN FlipByte(buf.pk, 1) ELSE buf.pk,
   sk |-> IF tag = "skhi" THEN FlipByte(buf.sk, 33) ELSE buf.sk]

\* the arguments of the verify: the signer's, one of them tampered with
VerifyArgs(tag) ==
  [tag |-> tag, sk |-> ZeroBytes(64), ss |-> Unwritten,
   msg |-> IF tag = "msg" THEN FlipByte(buf.msg, 1) ELSE buf.msg,
   pk |-> IF tag = "pk" THEN BadPoint ELSE buf.pk,
   sig |-> CASE tag = "s" -> FlipByte(buf.sig, 33)
             [] tag = "R" -> BadPoint \o Slice(buf.sig, 32, 32)
             [] OTHER -> buf.sig]

Arg0 ==
  [tag |-> "none", sig |-> Unwritten, ss |-> Unwritten, msg |-> ZeroBytes(32),
   pk |-> ZeroBytes(32), sk |-> ZeroBytes(64)]

Buf0(seed) ==
  [seed |-> seed, peer |-> Peer(seed), pk |-> Unwritten, sk |-> ZeroBytes(64),
   msg |-> ZeroBytes(32), sig |-> Unwritten \o Unwritten, pka |-> Unwritten,
   pkb |-> Unwritten, ssa |-> Unwritten, ssb |-> Unwritten]

Obs0 == [decpk |-> -1, decR |-> -1, quads |-> <<>>]

Thread0 ==
  [pc |-> "idle", fr |-> Frame0, sig |-> ZeroBytes(64), pk |-> ZeroBytes(32),
   msg |-> ZeroBytes(32), ret |-> -1, obs |-> Obs0]

\* phase: "off", "seq" (the two verify calls one after the other), "par"
\* (interleaved), "done"; cur: the thread that runs; th: the threads; seq:
\* what the calls of phase "seq" returned; static: static storage, which
\* the threads share; preempted: a thread was switched out inside its call
Par0 == [phase |-> "off", cur |-> 1, th |-> <<Thread0, Thread0>>,
         seq |-> <<-1, -1>>, static |-> Static0, preempted |-> FALSE]

Init ==
  /\ pc = "idle"
  /\ script = "start"
  /\ \E seed \in Seeds : buf = Buf0(seed)
  /\ arg = Arg0
  /\ fr = Frame0
  /\ ret = -1
  /\ obs = Obs0
  /\ par = Par0

LadderPcs == {"keypair", "sign", "verify_hQ", "verify_sP", "dh_keygen", "dh_exchange"}

\* one iteration of the loop of ladder_250, in whichever call runs it
LadderStep ==
  /\ pc \in LadderPcs
  /\ fr.lad.i >= 0
  /\ fr' = ladder_250_step(fr)
  /\ UNCHANGED <<pc, script, buf, arg, ret, obs, par>>

KeypairCall ==
  /\ pc = "idle" /\ script = "start"
  /\ \E k \in {qdsa_keypair_begin(fr, buf.seed)} :
       /\ fr' = k.f
       /\ buf' = [buf EXCEPT !.sk = k.sk]
  /\ pc' = "keypair"
  /\ UNCHANGED <<script, arg, ret, obs, par>>

KeypairReturn ==
  /\ pc = "keypair" /\ fr.lad.i < 0
  /\ \E k \in {qdsa_keypair_end(fr)} :
       /\ fr' = k.f
       /\ buf' = [buf EXCEPT !.pk = k.pk]
       /\ ret' = k.ret
  /\ pc' = "idle" /\ script' = "keyed"
  /\ UNCHANGED <<arg, obs, par>>

SignCall(m) ==
  /\ pc = "idle" /\ script = "keyed"
  /\ buf' = [buf EXCEPT !.msg = m]
  /\ fr' = qdsa_sign_begin(fr, m, buf.sk)
  /\ pc' = "sign"
  /\ UNCHANGED <<script, arg, ret, obs, par>>

SignReturn ==
  /\ pc = "sign" /\ script = "keyed" /\ fr.lad.i < 0
  /\ \E g \in {qdsa_sign_end(fr, buf.msg, buf.pk, buf.sk)} :
       /\ fr' = g.f
       /\ buf' = [buf EXCEPT !.sig = g.sig]
       /\ ret' = g.ret
  /\ pc' = "idle" /\ script' = "signed"
  /\ UNCHANGED <<arg, obs, par>>

ReSignCall(tag) ==
  /\ pc = "idle" /\ script = "signed" /\ par.phase = "off"
  /\ arg' = ReSignArgs(tag)
  /\ fr' = qdsa_sign_begin(fr, arg'.msg, arg'.sk)
  /\ pc' = "sign" /\ script' = "resign"
  /\ UNCHANGED <<buf, ret, obs, par>>

ReSignReturn ==
  /\ pc = "sign" /\ script = "resign" /\ fr.lad.i < 0
  /\ \E g \in {qdsa_sign_end(fr, arg.msg, arg.pk, arg.sk)} :
       /\ fr' = g.f
       /\ arg' = [arg EXCEPT !.sig = g.sig]
       /\ ret' = g.ret
  /\ pc' = "idle" /\ script' = "resigned"
  /\ UNCHANGED <<buf, obs, par>>


\* the verifier receives (sig, pk, msg), tampered with or not
Tamper(tag) ==
  /\ pc = "idle" /\ script = "signed" /\ par.phase = "off"
  /\ arg' = VerifyArgs(tag)
  /\ script' = "tampered"
  /\ UNCHANGED <<pc, buf, fr, ret, obs, par>>

VerifyCall ==
  /\ pc = "idle" /\ script = "tampered"
  /\ \E v \in {qdsa_verify_begin(fr, arg.sig, arg.pk, arg.msg)} :
       /\ fr' = v.f
       /\ obs' = [Obs0 EXCEPT !.decpk = v.f.dec]
       /\ IF v.returned
           THEN pc' = "idle" /\ script' = "verified" /\ ret' = v.ret
           ELSE pc' = "verify_hQ" /\ UNCHANGED <<script, ret>>
  /\ UNCHANGED <<buf, arg, par>>

VerifyMid ==
  /\ pc = "verify_hQ" /\ fr.lad.i < 0
  /\ fr' = qdsa_verify_mid(fr)
  /\ pc' = "verify_sP"
  /\ UNCHANGED <<script, buf, arg, ret, obs, par>>

VerifyReturn ==
  /\ pc = "verify_sP" /\ fr.lad.i < 0
  /\ \E v \in {qdsa_verify_end(fr, arg.sig)} :
       /\ fr' = v.f
       /\ arg' = [arg EXCEPT !.sig = v.sig]
       /\ obs' = [obs EXCEPT !.decR = v.dec, !.quads = v.quads]
       /\ ret' = v.ret
  /\ pc' = "idle" /\ script' = "verified"
  /\ UNCHANGED <<buf, par>>

\* party a (secret buf.seed) first, then party b (secret buf.peer)
DhKeygenCall ==
  /\ pc = "idle" /\ script \in {"start", "dh_a"}
  /\ fr' = qdsa_dh_keygen_begin(fr, IF script = "start" THEN buf.seed ELSE buf.peer)
  /\ pc' = "dh_keygen"
  /\ UNCHANGED <<script, buf, arg, ret, obs, par>>

DhKeygenReturn ==
  /\ pc = "dh_keygen" /\ fr.lad.i < 0
  /\ \E k \in {qdsa_dh_keygen_end(fr)} :
       /\ fr' = k.f
       /\ ret' = k.ret
       /\ buf' = IF script = "start" THEN [buf EXCEPT !.pka = k.pk]
                  ELSE [buf EXCEPT !.pkb = k.pk]
  /\ pc' = "idle"
  /\ script' = IF script = "start" THEN "dh_a" ELSE "dh_b"
  /\ UNCHANGED <<arg, obs, par>>

\* a: dh_exchange(ssa, pkb, seed); then b: dh_exchange(ssb, pka, peer)
DhExchangeCall ==
  /\ pc = "idle" /\ script \in {"dh_b", "ex_a"}
  /\ \E u \in Uninit :
       fr' = IF script = "dh_b"
             THEN qdsa_dh_exchange_begin(fr, buf.pkb, buf.seed, u)
             ELSE qdsa_dh_exchange_begin(fr, buf.pka, buf.peer, u)
  /\ pc' = "dh_exchange"
  /\ UNCHANGED <<script, buf, arg, ret, obs, par>>

\* a receives a public key that does not decompress
DhExchangeBadCall ==
  /\ pc = "idle" /\ script = "dh_a"
  /\ arg' = [Arg0 EXCEPT !.tag = "pk", !.pk = BadPoint]
  /\ \E u \in Uninit : fr' = qdsa_dh_exchange_begin(fr, BadPoint, buf.seed, u)
  /\ pc' = "dh_exchange" /\ script' = "dh_bad"
  /\ UNCHANGED <<buf, ret, obs, par>>

DhExchangeReturn ==
  /\ pc = "dh_exchange" /\ fr.lad.i < 0
  /\ \E e \in {qdsa_dh_exchange_end(fr)} :
       /\ fr' = e.f
       /\ ret' = e.ret
       /\ buf' = CASE script = "dh_b" -> [buf EXCEPT !.ssa = e.ss]
                    [] script = "ex_a" -> [buf EXCEPT !.ssb = e.ss]
                    [] OTHER -> buf
       /\ arg' = IF script = "dh_bad" THEN [arg EXCEPT !.ss = e.ss] ELSE arg
  /\ pc' = "idle"
  /\ script' = CASE script = "dh_b" -> "ex_a"
                 [] script = "ex_a" -> "ex_b"
                 [] OTHER -> "ex_bad"
  /\ UNCHANGED <<obs, par>>

Next ==
  \/ LadderStep
  \/ KeypairCall
  \/ KeypairReturn
  \/ \E m \in Msgs : SignCall(m)
  \/ SignReturn
  \/ \E tag \in ReSignTags : ReSignCall(tag)
  \/ ReSignReturn
  \/ \E tag \in VerifyTags : Tamper(tag)
  \/ VerifyCall
  \/ VerifyMid
  \/ VerifyReturn
  \/ DhKeygenCall
  \/ DhKeygenReturn
  \/ DhExchangeCall
  \/ DhExchangeBadCall
  \/ DhExchangeReturn

Spec == Init /\ [][Next]_vars

(***************************************************************************)
(* Properties of the API under Spec.                                       *)
(***************************************************************************)
\* the verify just made was given the signer's own signature, key and message
Genuine == arg.sig = buf.sig /\ arg.pk = buf.pk /\ arg.msg = buf.msg

\* C1: a signature made by qdsa_sign under a key pair of qdsa_keypair is
\* accepted by qdsa_verify for the same message and public key: it returns 0.
C1_SignThenVerify == (script = "verified" /\ Genuine) => ret = 0

C1_Witness == script = "verified" /\ Genuine /\ ret = 0 /\ Len(obs.quads) = 6

AllZero6 == <<0, 0, 0, 0, 0, 0>>

\* C2: qdsa_verify returns 0 or 1 only; it returns 0 exactly when pk
\* decompresses, the R half of the signature decompresses and all six quad
\* calls return 0; a failed decompression of pk or of R yields 1.
C2_VerifyResult ==
  script = "verified" =>
    /\ ret \in {0, 1}
    /\ ret = 0 <=> (obs.decpk = 0 /\ obs.decR = 0 /\ obs.quads = AllZero6)
    /\ (obs.decpk # 0 \/ obs.decR # 0) => ret = 1

\* a verify in which both decompressions succeed and a quad rejects
C2_Witness ==
  /\ script = "verified" /\ ret = 1
  /\ obs.decpk = 0 /\ obs.decR = 0 /\ Len(obs.quads) = 6 /\ obs.quads # AllZero6

\* C3: the two parties of a Diffie-Hellman exchange compute the same 32
\* bytes: dh_exchange(pk_b, sk_a) = dh_exchange(pk_a, sk_b).
C3_DhAgree == script = "ex_b" => buf.ssa = buf.ssb

C3_Witness == script = "ex_b" /\ buf.ssa = buf.ssb /\ buf.ssa # Unwritten

\* C4: qdsa_keypair, qdsa_sign, qdsa_dh_keygen and qdsa_dh_exchange return 0
\* on every input; qdsa_dh_exchange returns 0 and writes the shared secret
\* even when decompress of the public key returned 1.
C4_AlwaysZero ==
  /\ (pc = "idle" /\ script \in {"keyed", "signed", "resigned", "dh_a", "dh_b",
                                 "ex_a", "ex_b", "ex_bad"}) => ret = 0
  /\ script = "ex_bad" => (fr.dec = 1 /\ arg.ss # Unwritten)

C4_Witness == script = "ex_bad" /\ ret = 0 /\ fr.dec = 1 /\ arg.ss # Unwritten

\* C5: qdsa_sign is deterministic: a second call on the same arguments gives
\* the same 64 bytes, whatever the first call left on the stack, and the R
\* half depends on sk[0..31] and the message only.
C5_SignDeterministic ==
  script = "resigned" =>
    /\ (arg.msg = buf.msg /\ Slice(arg.sk, 0, 32) = Slice(buf.sk, 0, 32))
         => Slice(arg.sig, 0, 32) = Slice(buf.sig, 0, 32)
    /\ (arg.msg = buf.msg /\ arg.sk = buf.sk /\ arg.pk = buf.pk) => arg.sig = buf.sig

\* the second half of sk differs, the R half is the same, s is not
C5_Witness ==
  /\ script = "resigned" /\ arg.msg = buf.msg /\ arg.sk # buf.sk
  /\ Slice(arg.sk, 0, 32) = Slice(buf.sk, 0, 32)
  /\ Slice(arg.sig, 0, 32) = Slice(buf.sig, 0, 32)
  /\ arg.sig # buf.sig

\* C6: the s half of every signature is a reduced scalar: the top 6 bits of
\* its last byte are zero.
C6_ReducedS ==
  /\ script \in {"signed", "resign", "resigned", "tampered", "verified"}
       => buf.sig[64] < 4
  /\ script = "resigned" => arg.sig[64] < 4

C6_Witness == script = "resigned" /\ arg.sig # buf.sig /\ arg.sig[64] < 4

\* C9: on return from qdsa_sign and qdsa_keypair the secret locals (the
\* sponge state, the nonce r) hold zeros.
C9_SecretsZeroed ==
  (pc = "idle" /\ script \in {"keyed", "signed"}) =>
    (fr.ctx.state = ZeroBytes(100) /\ (script = "signed" => fr.r = ZeroBytes(32)))

(***************************************************************************)
(* decompress and compress on chosen compressed points: a caller that      *)
(* decompresses the 32 bytes arg.pk into sP (scratch hQ) and, when that    *)
(* returned 0, compresses sP into arg.ss.                                  *)
(***************************************************************************)
\* the 16 bytes of the field element v < 256
SmallField(v) == [ZeroBytes(16) EXCEPT ![1] = v]

\* the 16 bytes of 2^127 - 1: the 127-bit field is p, which is 0 mod p
PField == [FillBytes(16, 255) EXCEPT ![16] = 127]

\* l1 with K_2(l1, l2, 1) = 0 and K_3(l1, l2, 1) # 0, for l2 = 1 and l2 = 3
K2Roots ==
  {<<<<216, 156, 58, 208, 155, 59, 155, 37, 1, 98, 147, 10, 64, 160, 78, 12>>, 1>>,
   <<<<165, 190, 240, 233, 144, 70, 162, 238, 137, 239, 237, 181, 137, 111, 178, 14>>, 1>>,
   <<<<205, 218, 198, 45, 64, 125, 10, 23, 89, 203, 146, 103, 102, 230, 50, 96>>, 3>>,
   <<<<233, 142, 127, 250, 183, 9, 239, 55, 177, 21, 197, 182, 231, 166, 99, 124>>, 3>>}

MaxSmall == 2

\* the pairs of 127-bit fields tried
FieldPairs ==
  ({SmallField(0), PField} \X {SmallField(0), PField})
  \cup {<<SmallField(a), SmallField(b)>> : a \in 1..MaxSmall, b \in 1..MaxSmall}
  \cup {<<k[1], SmallField(k[2])>> : k \in K2Roots}

\* the ckpoint of the fields l1 and l2 and the bits tau and sigma
CkPoint(l1, l2, tau, sigma) ==
  [l1 EXCEPT ![16] = @ + 128 * tau] \o [l2 EXCEPT ![16] = @ + 128 * sigma]

DecInputs ==
  {CkPoint(f[1], f[2], tau, sigma) : f \in FieldPairs, tau \in {0, 1}, sigma \in {0, 1}}

\* K_2 and K_3 of the ckpoint x, frozen, as decompress computes them
DecK(x) ==
  RunAll(Mem0,
         <<<<"load", Loc("K", "l1"), x, 0>>,
           <<"load", Loc("K", "l2"), x, 16>>,
           <<"clear_top", Loc("K", "l1")>>,
           <<"clear_top", Loc("K", "l2")>>>>
         \o get_k2(Loc("K", "k2"), Loc("K", "t0"), Loc("K", "l1"), Loc("K", "l2"),
                   decompress_tau(x))
         \o get_k3(Loc("K", "k3"), Loc("K", "t0"), Loc("K", "t1"), Loc("K", "l1"),
                   Loc("K", "l2"), decompress_tau(x))
         \o <<<<"fe1271_freeze", Loc("K", "k2")>>,
              <<"fe1271_freeze", Loc("K", "k3")>>>>)

\* what is recorded of a decompress call: the frozen K_2 and K_3 of its input
DecObs(m) == [k2 |-> m[Loc("K", "k2")], k3 |-> m[Loc("K", "k3")]]

InitDec ==
  /\ pc = "idle"
  /\ script = "dec"
  /\ buf = Buf0(TestBytes(1, 1))
  /\ \E x \in DecInputs : arg = [Arg0 EXCEPT !.pk = x]
  /\ fr = Frame0
  /\ ret = -1
  /\ obs = DecObs(DecK(arg.pk))
  /\ par = Par0

\* decompress(&sP, &hQ, arg.pk)
DecompressCall ==
  /\ pc = "idle" /\ script = "dec"
  /\ \E m \in {RunAll(fr.mem, decompress(Loc("caller", "dec"), "sP", "hQ", arg.pk))} :
       /\ fr' = [fr EXCEPT !.mem = m, !.dec = m[Loc("caller", "dec")]]
       /\ ret' = m[Loc("caller", "dec")]
  /\ script' = "decompressed"
  /\ UNCHANGED <<pc, buf, arg, obs, par>>

\* compress(&rx.fe1, &rx.fe2, &sP) of the point decompress gave
CompressCall ==
  /\ pc = "idle" /\ script = "decompressed" /\ ret = 0
  /\ \E m \in {RunAll(fr.mem, compress(Loc("rx", "fe1"), Loc("rx", "fe2"), "sP"))} :
       /\ fr' = [fr EXCEPT !.mem = m, !.rx = CkBytes(m, "rx")]
       /\ arg' = [arg EXCEPT !.ss = CkBytes(m, "rx")]
  /\ script' = "compressed"
  /\ UNCHANGED <<pc, buf, ret, obs, par>>

NextDec == DecompressCall \/ CompressCall

SpecDec == InitDec /\ [][NextDec]_vars

\* the 127-bit fields of the input are both zero
ZeroFields == arg.pk \in {CkPoint(SmallField(0), SmallField(0), tau, sigma) :
                            tau \in {0, 1}, sigma \in {0, 1}}

\* the frozen coordinates of the kpoint p
Frozen(m, p) ==
  <<fe1271_freeze(m[PX(p)]), fe1271_freeze(m[PY(p)]), fe1271_freeze(m[PZ(p)]),
    fe1271_freeze(m[PT(p)])>>

\* the identity as decompress gives it: T_inv of (0, 0, 0, 1)
Identity ==
  <<fe1271_freeze(fe1271_neg(set_const(mu_1))), set_const(mu_2), set_const(mu_3),
    set_const(mu_4)>>

\* C7: decompress of an input whose fields l1 and l2 are both zero returns 0
\* and gives the identity when tau = sigma = 0, and returns 1 when tau = 1
\* or sigma = 1.
C7_ZeroFields ==
  (script = "decompressed" /\ ZeroFields) =>
    IF decompress_tau(arg.pk) = 0 /\ decompress_sigma(arg.pk) = 0
    THEN ret = 0 /\ Frozen(fr.mem, "sP") = Identity
    ELSE ret = 1

\* C8: where decompress returned 0, compress of its result gives back the
\* input byte for byte.
C8_RoundTrip == script = "compressed" => arg.ss = arg.pk

\* C16: with K_2 = 0 and K_3 # 0, decompress returns 0 exactly when sigma is
\* the low bit of the frozen K_3, and 1 otherwise.
C16_SigmaRule ==
  (script = "decompressed" /\ obs.k2 = FeZero /\ obs.k3 # FeZero) =>
    /\ ret \in {0, 1}
    /\ ret = 0 <=> decompress_sigma(arg.pk) = obs.k3[1] % 2

(***************************************************************************)
(* Two threads that call qdsa_verify on buffers of their own: first one    *)
(* after the other, then interleaved.  A thread has its own stack (its     *)
(* frame); static storage is shared.  The scheduler may switch threads     *)
(* between calls and inside the ladder loops.                              *)
(***************************************************************************)
\* the ladder iterations at whose head the scheduler may switch
SwitchAt == {125}

\* the buffers of thread i: the signer's, and for thread 2 another message
ParInput(i) ==
  [sig |-> buf.sig, pk |-> buf.pk,
   msg |-> IF i = 1 THEN buf.msg ELSE FlipByte(buf.msg, 1)]

ThreadInit(t, i) ==
  [t EXCEPT !.pc = "idle", !.ret = -1, !.obs = Obs0, !.sig = ParInput(i).sig,
            !.pk = ParInput(i).pk, !.msg = ParInput(i).msg]

\* the frame f with static storage st in the place of its copy
WithStatic(f, st) ==
  [f EXCEPT !.mem = [n \in DOMAIN f.mem |-> IF n \in DOMAIN st THEN st[n] ELSE f.mem[n]]]

\* static storage as the memory m has it
StaticOf(m) == [n \in StaticNames |-> m[n]]

\* the thread t after the first part v of its qdsa_verify
ThreadBegin(t, v) ==
  [t EXCEPT !.fr = v.f, !.obs = [Obs0 EXCEPT !.decpk = v.f.dec],
            !.pc = IF v.returned THEN "done" ELSE "verify_hQ",
            !.ret = IF v.returned THEN v.ret ELSE @]

\* the thread t after the last part v of its qdsa_verify
ThreadEnd(t, v) ==
  [t EXCEPT !.fr = v.f, !.sig = v.sig, !.ret = v.ret, !.pc = "done",
            !.obs = [@ EXCEPT !.decR = v.dec, !.quads = v.quads]]

\* one step of the qdsa_verify of thread t
ThreadStep(t) ==
  CASE t.pc = "idle" -> ThreadBegin(t, qdsa_verify_begin(t.fr, t.sig, t.pk, t.msg))
    [] t.pc \in {"verify_hQ", "verify_sP"} /\ t.fr.lad.i >= 0 ->
         [t EXCEPT !.fr = ladder_250_step(@)]
    [] t.pc = "verify_hQ" /\ t.fr.lad.i < 0 ->
         [t EXCEPT !.fr = qdsa_verify_mid(@), !.pc = "verify_sP"]
    [] t.pc = "verify_sP" /\ t.fr.lad.i < 0 ->
         ThreadEnd(t, qdsa_verify_end(t.fr, t.sig))

\* the scheduler may take the processor from the thread t here
SwitchPoint(t) ==
  \/ t.pc \in {"idle", "done"}
  \/ t.pc \in {"verify_hQ", "verify_sP"} /\ t.fr.lad.i \in SwitchAt

\* after qdsa_sign the caller starts the two threads
ParStart ==
  /\ pc = "idle" /\ script = "signed" /\ par.phase = "off"
  /\ par' = [par EXCEPT !.phase = "seq", !.cur = 1,
                        !.th = <<ThreadInit(Thread0, 1), ThreadInit(Thread0, 2)>>,
                        !.static = StaticOf(fr.mem)]
  /\ script' = "threads"
  /\ UNCHANGED <<pc, buf, arg, fr, ret, obs>>

\* the running thread takes a step
ParStep ==
  /\ par.phase \in {"seq", "par"}
  /\ par.th[par.cur].pc # "done"
  /\ \E t \in {ThreadStep([par.th[par.cur] EXCEPT !.fr = WithStatic(@, par.static)])} :
       par' = [par EXCEPT !.th[par.cur] = t, !.static = StaticOf(t.fr.mem)]
  /\ UNCHANGED <<pc, script, buf, arg, fr, ret, obs>>

\* the other thread gets the processor: when the running one has returned,
\* and in phase "par" at any switch point
ParSwitch ==
  /\ par.phase \in {"seq", "par"}
  /\ par.th[3 - par.cur].pc # "done"
  /\ \/ par.th[par.cur].pc = "done"
     \/ par.phase = "par" /\ SwitchPoint(par.th[par.cur])
  /\ par' = [par EXCEPT !.cur = 3 - @,
                        !.preempted = @ \/ par.th[par.cur].pc \notin {"idle", "done"}]
  /\ UNCHANGED <<pc, script, buf, arg, fr, ret, obs>>

\* both calls of phase "seq" have returned: the threads call again
ParAgain ==
  /\ par.phase = "seq"
  /\ par.th[1].pc = "done" /\ par.th[2].pc = "done"
  /\ \E c \in {1, 2} :
       par' = [par EXCEPT !.phase = "par", !.cur = c,
                          !.seq = <<par.th[1].ret, par.th[2].ret>>,
                          !.th = <<ThreadInit(par.th[1], 1), ThreadInit(par.th[2], 2)>>]
  /\ UNCHANGED <<pc, script, buf, arg, fr, ret, obs>>

\* both calls of phase "par" have returned
ParEnd ==
  /\ par.phase = "par"
  /\ par.th[1].pc = "done" /\ par.th[2].pc = "done"
  /\ par' = [par EXCEPT !.phase = "done"]
  /\ UNCHANGED <<pc, script, buf, arg, fr, ret, obs>>

NextPar ==
  \/ LadderStep
  \/ KeypairCall
  \/ KeypairReturn
  \/ \E m \in Msgs : SignCall(m)
  \/ SignReturn
  \/ ParStart
  \/ ParStep
  \/ ParSwitch
  \/ ParAgain
  \/ ParEnd

SpecPar == Init /\ [][NextPar]_vars

\* C10: qdsa_verify writes only to its locals: when a thread's call has
\* returned its sig, pk and msg are what the caller passed, static storage
\* is what it was at the start, and the interleaved calls return what the
\* calls made one after the other returned.
C10_VerifyFrame ==
  /\ par.static = Static0
  /\ \A i \in {1, 2} :
       (par.phase # "off" /\ par.th[i].pc = "done") =>
         /\ par.th[i].sig = ParInput(i).sig
         /\ par.th[i].pk = ParInput(i).pk
         /\ par.th[i].msg = ParInput(i).msg
         /\ par.phase \in {"par", "done"} => par.th[i].ret = par.seq[i]

\* both interleaved calls have returned, one accepted and one rejected, and
\* a thread was switched out inside its call
C10_Witness ==
  /\ par.phase = "done" /\ par.preempted
  /\ par.th[1].ret = 0 /\ par.th[2].ret = 1
  /\ par.seq = <<0, 1>>

(***************************************************************************)
(* The sponge on its own: a caller that absorbs the bytes a and then the   *)
(* bytes b into a context, absorbs a||b in one call into a copy of the     *)
(* context, and finishes.                                                  *)
(***************************************************************************)
\* n bytes of test data that start at offset off of a fixed stream
SpongeData(off, n) ==
  LET byte == [i \in Int |-> (i * 37 + (i \div 7) * 5 + 11) % 256]
  IN Tabulate(byte, off + 1, off + n)

\* the lengths of a and of b, and of what the context has absorbed before
SpongeLens == {0, 4, 64, 68, 72}
StartLens == {0, 4, 64, 72}

\* a context that has absorbed n bytes since bobjr_init
SpongeStart(n) ==
  bobjr_absorb_wa(bobjr_init([ptr |-> 0, state |-> <<>>]), SpongeData(0, n), n)

\* what the caller has seen: whole, the context after the call on a||b;
\* before and padded, the context at the call of bobjr_finish_wa and its
\* state as the permutation found it
SpongeObs0 == [whole |-> SpongeStart(0), before |-> SpongeStart(0), padded |-> <<>>]

InitSponge ==
  /\ pc = "idle"
  /\ script = "sponge"
  /\ buf = Buf0(TestBytes(1, 1))
  /\ \E n \in StartLens, la \in SpongeLens, lb \in SpongeLens :
       /\ fr = [Frame0 EXCEPT !.ctx = SpongeStart(n)]
       /\ arg = [a |-> SpongeData(100, la), b |-> SpongeData(100 + la, lb),
                 ctx |-> SpongeStart(n)]
  /\ ret = -1
  /\ obs = SpongeObs0
  /\ par = Par0

\* bobjr_absorb_wa(&ctx, a, la)
AbsorbFirst ==
  /\ script = "sponge"
  /\ fr' = [fr EXCEPT !.ctx = bobjr_absorb_wa(@, arg.a, Len(arg.a))]
  /\ script' = "absorbed_a"
  /\ UNCHANGED <<pc, buf, arg, ret, obs, par>>

\* bobjr_absorb_wa(&ctx, b, lb)
AbsorbSecond ==
  /\ script = "absorbed_a"
  /\ fr' = [fr EXCEPT !.ctx = bobjr_absorb_wa(@, arg.b, Len(arg.b))]
  /\ script' = "absorbed_b"
  /\ UNCHANGED <<pc, buf, arg, ret, obs, par>>

\* bobjr_absorb_wa(&copy, a||b, la + lb) on the copy of the first context
AbsorbWhole ==
  /\ script = "absorbed_b"
  /\ obs' = [obs EXCEPT !.whole = bobjr_absorb_wa(arg.ctx, arg.a \o arg.b,
                                                 Len(arg.a) + Len(arg.b))]
  /\ script' = "absorbed"
  /\ UNCHANGED <<pc, buf, arg, fr, ret, par>>

\* bobjr_finish_wa(&ctx)
FinishCall ==
  /\ script = "absorbed"
  /\ fr' = [fr EXCEPT !.ctx = bobjr_finish_wa(@)]
  /\ obs' = [obs EXCEPT !.before = fr.ctx, !.padded = bobjr_pad(fr.ctx)]
  /\ script' = "finished"
  /\ UNCHANGED <<pc, buf, arg, ret, par>>

NextSponge == AbsorbFirst \/ AbsorbSecond \/ AbsorbWhole \/ FinishCall

SpecSponge == InitSponge /\ [][NextSponge]_vars

\* C11: absorbing a and then b leaves the context (state and ptr) as
\* absorbing a||b in one call does, for word-aligned lengths and ptr.
C11_AbsorbStream ==
  (/\ script = "absorbed"
   /\ arg.ctx.ptr % 4 = 0 /\ Len(arg.a) % 4 = 0 /\ Len(arg.b) % 4 = 0)
    => fr.ctx = obs.whole

\* the rate is filled inside a and again inside b, from a context in use
C11_Witness ==
  /\ script = "absorbed" /\ fr.ctx = obs.whole
  /\ arg.ctx.ptr = 4 /\ arg.ctx.state # ZeroBytes(100)
  /\ Len(arg.a) = 68 /\ Len(arg.b) = 72
  /\ fr.ctx.ptr = 8

\* C12: bobjr_finish_wa keeps the rate bytes below ptr, sets byte ptr to
\* 0x01 and the bytes after it up to byte 66 to zero, sets the top bit of
\* byte 67, leaves the capacity bytes 68..99 as they are, runs one 10-round
\* permutation on that and sets ptr to 0.
C12_FinishPads ==
  (script = "finished" /\ obs.before.ptr % 4 = 0) =>
    /\ SubSeq(obs.padded, 1, obs.before.ptr) = SubSeq(obs.before.state, 1, obs.before.ptr)
    /\ obs.padded[obs.before.ptr + 1] = 1
    /\ \A j \in (obs.before.ptr + 1)..66 : obs.padded[j + 1] = 0
    /\ obs.padded[68] >= 128
    /\ SubSeq(obs.padded, 69, 100) = SubSeq(obs.before.state, 69, 100)
    /\ fr.ctx.state = kf800_permute(obs.padded, 10)
    /\ fr.ctx.ptr = 0

\* finished from ptr = 64 on a state a permutation has filled
C12_Witness ==
  /\ script = "finished" /\ obs.before.ptr = 64
  /\ obs.padded[65] = 1 /\ obs.padded[68] = 128
  /\ SubSeq(obs.before.state, 69, 100) # ZeroBytes(32)
  /\ fr.ctx.ptr = 0

(***************************************************************************)
(* The scalars on their own: a caller that reduces 512-bit values and      *)
(* calls scalar_ops on reduced scalars.                                    *)
(***************************************************************************)
\* the 8 words of v < 256
Scalar(v) == [ZeroBytes(32) EXCEPT ![1] = v]

NMinus1 == [N EXCEPT ![1] = @ - 1]
NPlus1 == [N EXCEPT ![1] = @ + 1]

\* 2^250 - 1, the largest value with the top 6 bits zero
Top250 == [FillBytes(32, 255) EXCEPT ![32] = 3]

\* a < b as 256-bit values
Less(a, b) ==
  \E k \in 1..32 : a[k] < b[k] /\ \A j \in (k + 1)..32 : a[j] = b[j]

\* v + N and v - N modulo 2^256
AddN(v) == SubSeq(large_add(v \o ZeroBytes(32), N, 0), 1, 32)

SubN(v) ==
  LET d == [k \in Int |-> v[k + 1] + (255 - N[k + 1]) + (IF k = 0 THEN 1 ELSE 0)]
  IN Normalise(Tabulate(d, 0, 31), 256, 32)

\* the representative in [0, N) of v < 2N
Canon(v) == IF Less(v, N) THEN v ELSE SubN(v)

\* 2^512 - 1 and its residue modulo N
AllOnes == FillBytes(64, 255)
AllOnesModN ==
  <<2, 120, 194, 29, 100, 54, 169, 110, 188, 59, 50, 107, 157, 56, 103, 244,
    20, 208, 84, 141, 221, 46, 15, 86, 25, 213, 222, 14, 214, 95, 160, 0>>

\* multipliers k and residues a < N of the inputs x = k * N + a of large_red
RedMultipliers == {Scalar(0), Scalar(1), Scalar(2), FillBytes(32, 255), TestBytes(5, 1)}
RedResidues == {Scalar(0), Scalar(1), NMinus1, scalar_get32(TestBytes(1, 1))}

RedInput(k, a) ==
  [kind |-> "red", x |-> large_add(large_mul(k, N), a, 0), a |-> a]

RedInputs ==
  {RedInput(k, a) : k \in RedMultipliers, a \in RedResidues}
  \cup {[kind |-> "red", x |-> AllOnes, a |-> AllOnesModN]}

\* reduced scalars: what large_red returns on these
OpsR == {scalar_get32(v) : v \in {Scalar(0), TestBytes(1, 1), Top250}}
OpsH == {scalar_get32(v) : v \in {Scalar(0), Scalar(1), TestBytes(2, 1), Top250}}
OpsD == {scalar_get32(v) : v \in {Scalar(1), NMinus1, NPlus1, TestBytes(3, 1), Top250}}

\* alias: the output s of scalar_ops is the buffer of d
OpsInputs ==
  {[kind |-> "ops", r |-> r, h |-> h, d |-> d, alias |-> al] :
     r \in OpsR, h \in OpsH, d \in OpsD, al \in BOOLEAN}

\* values large_red returns, for large_neg
NegInputs ==
  {[kind |-> "neg", x |-> scalar_get32(v)] :
     v \in {Scalar(0), Scalar(1), NMinus1, N, NPlus1, Top250, TestBytes(1, 1),
            TestBytes(2, 1), TestBytes(3, 1)}}

\* what large_add is called on: x of 16 words, y of 8 words, os as
\* large_mul passes it
AddX ==
  {ZeroBytes(64), FillBytes(64, 255), FillBytes(32, 255) \o ZeroBytes(32),
   ZeroBytes(32) \o FillBytes(32, 255), TestBytes(1, 1) \o TestBytes(2, 1),
   large_mul(Top250, Top250)}

AddY == {Scalar(0), Scalar(1), FillBytes(32, 255), TestBytes(3, 1)}

AddInputs ==
  {[kind |-> "add", x |-> x, y |-> y, os |-> os] :
     x \in AddX, y \in AddY, os \in {0, 4, 8}}

ScalarObs0 ==
  [r |-> ZeroBytes(64), carries |-> <<>>, borrow |-> 0, high |-> <<>>,
   carry |-> 0, words |-> {}]

InitScalar ==
  /\ pc = "idle"
  /\ script = "scalar"
  /\ buf = Buf0(TestBytes(1, 1))
  /\ arg \in RedInputs \cup OpsInputs \cup NegInputs \cup AddInputs
  /\ fr = Frame0
  /\ ret = -1
  /\ obs = ScalarObs0
  /\ par = Par0

\* large_red(fr.r, arg.x): obs keeps the 16 words of its local r and the
\* carries out of its additions
RedCall ==
  /\ script = "scalar" /\ arg.kind = "red"
  /\ fr' = [fr EXCEPT !.r = large_red(arg.x)]
  /\ obs' = [obs EXCEPT !.r = large_red_r(arg.x), !.carries = RedCarries(arg.x)]
  /\ script' = "reduced"
  /\ UNCHANGED <<pc, buf, arg, ret, par>>

\* the buffers of the call of scalar_ops
OpsMem ==
  [n \in {"r", "h", "d", "s"} |->
     CASE n = "r" -> arg.r [] n = "h" -> arg.h [] n = "d" -> arg.d
       [] n = "s" -> Unwritten]

\* scalar_ops(s, &r, h, d), the output s being d or a buffer of its own
OpsCall ==
  /\ script = "scalar" /\ arg.kind = "ops"
  /\ fr' = [fr EXCEPT !.r = arg.r, !.h = arg.h,
                      !.s = IF arg.alias
                            THEN scalar_ops_at(OpsMem, "d", "r", "h", "d")["d"]
                            ELSE scalar_ops_at(OpsMem, "s", "r", "h", "d")["s"]]
  /\ script' = "subtracted"
  /\ UNCHANGED <<pc, buf, arg, ret, obs, par>>

\* large_neg(fr.s, arg.x): obs keeps the borrow out of word 7
NegCall ==
  /\ script = "scalar" /\ arg.kind = "neg"
  /\ fr' = [fr EXCEPT !.s = large_neg(arg.x)]
  /\ obs' = [obs EXCEPT !.borrow = large_neg_borrow(arg.x)]
  /\ script' = "negated"
  /\ UNCHANGED <<pc, buf, arg, ret, par>>

\* large_add(obs.r, arg.y, arg.os) on obs.r = arg.x: obs keeps t0 >> 32 of
\* every word, the last carry and the words of x the loops went over
AddCall ==
  /\ script = "scalar" /\ arg.kind = "add"
  /\ \E st \in {large_add_loops(arg.x, arg.y, arg.os)} :
       obs' = [obs EXCEPT !.r = st.x, !.high = st.high, !.carry = st.carry,
                          !.words = st.words]
  /\ script' = "added"
  /\ UNCHANGED <<pc, buf, arg, fr, ret, par>>

NextScalar == RedCall \/ OpsCall \/ NegCall \/ AddCall

SpecScalar == InitScalar /\ [][NextScalar]_vars

\* C13: large_red returns r congruent to x modulo N with r < 2^250, and no
\* carry leaves the 16 words in any of its six additions.  (x = k * N + a
\* with a < N, so r is a or a + N.)
C13_LargeRed ==
  script = "reduced" =>
    /\ fr.r = arg.a \/ fr.r = AddN(arg.a)
    /\ fr.r[32] < 4
    /\ obs.carries = <<0, 0, 0, 0, 0, 0>>

\* the largest input, and an input of 506 bits, have been reduced
C13_Witness ==
  /\ script = "reduced" /\ fr.r[32] < 4
  /\ \/ arg.x = AllOnes /\ fr.r \in {AllOnesModN, AddN(AllOnesModN)}
     \/ arg.x[64] >= 3 /\ arg.a = NMinus1 /\ fr.r \in {NMinus1, AddN(NMinus1)}

\* C14: the output of large_red is in [0, N).
C14_Canonical == script = "reduced" => Less(fr.r, N)

\* C21: for x that large_red can return, large_neg yields N - x without a
\* borrow out of word 7, in [0, N), congruent to -x modulo N.
C21_LargeNeg ==
  script = "negated" =>
    /\ obs.borrow = 0
    /\ Less(fr.s, N)
    /\ Canon(large_red(large_add(fr.s \o ZeroBytes(32), arg.x, 0))) = Scalar(0)

\* s + h * d and r are congruent modulo N
Congruent(s, h, d, r) ==
  Canon(large_red(large_add(large_mul(h, d), s, 0))) = Canon(r)

\* C20: for reduced r, h and d, scalar_ops writes s congruent to r - h*d
\* modulo N with s < 2^250, also when s is the buffer of d.
C20_ScalarOps ==
  script = "subtracted" =>
    /\ fr.s[32] < 4
    /\ Congruent(fr.s, arg.h, arg.d, arg.r)

(***************************************************************************)
(* Wrapping on its own: a caller that wraps a kpoint and unwraps the       *)
(* result, as qdsa_dh_exchange and ladder_base_250 do between them.        *)
(***************************************************************************)
\* x is not zero modulo p
NonZero(x) == fe1271_freeze(x) # FeZero

Coords(P) == <<P.X, P.Y, P.Z, P.T>>

\* a and b are proportional: every 2x2 minor of the two rows is zero mod p
Proportional(a, b) ==
  \A i \in 1..4 : \A j \in (i + 1)..4 :
    fe1271_freeze(fe1271_mul(a[i], b[j])) = fe1271_freeze(fe1271_mul(a[j], b[i]))

\* Q = (cX, cY, cZ, cT) for some nonzero c, P = (X, Y, Z, T) not being zero
ProjEqual(P, Q) ==
  /\ \E i \in 1..4 : NonZero(Coords(P)[i])
  /\ \E i \in 1..4 : NonZero(Coords(Q)[i])
  /\ Proportional(Coords(P), Coords(Q))

\* coordinates: 0, p (zero, not frozen), small constants and two elements
\* of full length
WrapX == {FeZero, P127, set_const(1), FeLoad(TestBytes(1, 1), 0)}
WrapYZT == {P127, set_const(2), FeLoad(TestBytes(1, 1), 16),
            FeLoad(TestBytes(2, 1), 0)}

\* the base point, unwrapped from bpw
BasePoint == Pt(RunAll(Mem0, xUNWRAP("PK", "bpw")), "PK")

WrapInputs ==
  {KPoint(x, y, z, t) : x \in WrapX, y \in WrapYZT, z \in WrapYZT, t \in WrapYZT}
  \cup {BasePoint}

InitPoint ==
  /\ pc = "idle"
  /\ script = "point"
  /\ buf = Buf0(TestBytes(1, 1))
  /\ arg \in WrapInputs
  /\ fr = [Frame0 EXCEPT !.mem = PutPt(@, "PK", arg)]
  /\ ret = -1
  /\ obs = Obs0
  /\ par = Par0

\* xWRAP(&pkw, &PK)
WrapCall ==
  /\ script = "point"
  /\ fr' = [fr EXCEPT !.mem = RunAll(@, xWRAP("pkw", "PK"))]
  /\ script' = "wrapped"
  /\ UNCHANGED <<pc, buf, arg, ret, obs, par>>

\* xUNWRAP(&SS, &pkw)
UnwrapCall ==
  /\ script = "wrapped"
  /\ fr' = [fr EXCEPT !.mem = RunAll(@, xUNWRAP("SS", "pkw"))]
  /\ script' = "unwrapped"
  /\ UNCHANGED <<pc, buf, arg, ret, obs, par>>

NextPoint == WrapCall \/ UnwrapCall

SpecPoint == InitPoint /\ [][NextPoint]_vars

\* C15 as stated: for P with Y, Z and T nonzero mod p, xUNWRAP(xWRAP(P)) is
\* projectively equal to P.
C15_WrapUnwrap ==
  (script = "unwrapped" /\ NonZero(arg.Y) /\ NonZero(arg.Z) /\ NonZero(arg.T))
    => ProjEqual(arg, Pt(fr.mem, "SS"))

\* C15 amended: for P with X, Y, Z and T all nonzero mod p, xUNWRAP(xWRAP(P))
\* is projectively equal to P; xWRAP has left P as it was.
C15_WrapUnwrapNonZero ==
  (script = "unwrapped" /\ NonZero(arg.X) /\ NonZero(arg.Y) /\ NonZero(arg.Z)
     /\ NonZero(arg.T))
    => /\ ProjEqual(arg, Pt(fr.mem, "SS"))
       /\ Pt(fr.mem, "PK") = arg

\* a point of full-length coordinates that is not the base point has been
\* wrapped and unwrapped, and the result is not P limb for limb
C15_Witness ==
  /\ script = "unwrapped"
  /\ arg.X = FeLoad(TestBytes(1, 1), 0) /\ arg.Y = FeLoad(TestBytes(2, 1), 0)
  /\ arg.Z = FeLoad(TestBytes(1, 1), 16) /\ arg.T = set_const(2)
  /\ Pt(fr.mem, "SS") # arg
  /\ ProjEqual(arg, Pt(fr.mem, "SS"))

(***************************************************************************)
(* The ladder on its own: a caller that runs ladder_250 on the base point  *)
(* (as ladder_base_250 does) and on its double (as qdsa_dh_exchange does   *)
(* on a public key).  Beside the CONF_QDSA_FULL ladder in fr run the       *)
(* verifier-only build of the same loop and a plain double-and-add.        *)
(***************************************************************************)
\* P with its first coordinate negated: the convention of xDBLADD
NegX(P) == [P EXCEPT !.X = fe1271_neg(@)]

\* the neutral element; ladder_250 starts xp from it with X negated
KummerZero ==
  KPoint(fe1271_neg(set_const(mu_1)), set_const(mu_2), set_const(mu_3),
         set_const(mu_4))

\* what xDBLADD(&sP, &hQ, &pxw) left: the double and the sum
RefOut(m) == [dbl |-> NegX(Pt(m, "sP")), sum |-> Pt(m, "hQ")]

\* 2A and A + B by xDBLADD, for A - B = +-Q and W the wrapped Q
RefDblAdd(A, B, W) ==
  RefOut(RunAll(PutPt(PutPt(PutPt(Mem0, "sP", NegX(A)), "hQ", NegX(B)), "pxw", W),
                xDBLADD("sP", "hQ", "pxw")))

RefLow(o) == [R0 |-> o.dbl, R1 |-> o.sum]
RefHigh(o) == [R0 |-> o.sum, R1 |-> o.dbl]

\* ([m]Q, [m+1]Q) to ([2m + bit]Q, [2m + bit + 1]Q)
RefNext(ref, bit, W) ==
  IF bit = 0 THEN RefLow(RefDblAdd(ref.R0, ref.R1, W))
  ELSE RefHigh(RefDblAdd(ref.R1, ref.R0, W))

\* twice the base point
DoublePoint == RefDblAdd(BasePoint, BasePoint, Pt(Mem0, "bpw")).dbl

\* N with bit 255 set
NHigh == [N EXCEPT ![32] = @ + 128]

LadderScalars == {Scalar(1), NMinus1, NHigh, TestBytes(1, 1), FillBytes(32, 255)}
LadderPoints == {"base", "double"}

\* "xWRAP(&pkw, &PK); ladder_250(&SS, &PK, &pkw, n)" down to the loop
ladder_250_begin(f, Q, n) ==
  [f EXCEPT !.mem = RunAll(PutPt(@, "PK", Q),
                           xWRAP("pkw", "PK") \o ladder_250_init("SS")),
            !.lad = ladder_250_frame("SS", "PK", "pkw", n)]

LadBegin(f, q, n) ==
  IF q = "base" THEN ladder_base_250_begin(f, "R", n)
  ELSE ladder_250_begin(f, DoublePoint, n)

\* one iteration of the verifier-only build
ladder_250_step_v(f) ==
  [f EXCEPT !.mem = RunAll(@, ladder_250_loop_v(f.lad)), !.lad = ladder_250_next(@)]

\* the statements of a program less the mask handed to ct_swap
Shape(prog) ==
  [k \in 1..Len(prog) |->
     IF prog[k][1] = "ct_swap" THEN SubSeq(prog[k], 1, 3) ELSE prog[k]]

\* v: the verifier-only build; ref: the double-and-add; q: the point Q;
\* ops: the statements of the last iteration; iters: the iterations so far
LadObs0 ==
  [v |-> [mem |-> Mem0, lad |-> Lad0],
   ref |-> [R0 |-> KummerZero, R1 |-> KummerZero], q |-> Pt0, ops |-> <<>>,
   iters |-> 0]

InitLadder ==
  /\ pc = "idle"
  /\ script = "ladder"
  /\ buf = Buf0(TestBytes(1, 1))
  /\ arg \in {[n |-> n, q |-> q] : n \in LadderScalars, q \in LadderPoints}
  /\ fr = Frame0
  /\ ret = -1
  /\ obs = LadObs0
  /\ par = Par0

\* the call of the ladder, down to its loop
LadCall ==
  /\ script = "ladder"
  /\ \E f \in {LadBegin(fr, arg.q, arg.n)} :
       /\ fr' = f
       /\ obs' = [obs EXCEPT !.v = [mem |-> f.mem, lad |-> f.lad],
                             !.q = Pt(f.mem, f.lad.xq),
                             !.ref = [R0 |-> KummerZero, R1 |-> Pt(f.mem, f.lad.xq)]]
  /\ script' = "running"
  /\ UNCHANGED <<pc, buf, arg, ret, par>>

\* one iteration of the loop, in both builds
LadStep ==
  /\ script = "running"
  /\ fr.lad.i >= 0
  /\ fr' = ladder_250_step(fr)
  /\ obs' = [obs EXCEPT !.v = ladder_250_step_v(@),
                        !.ref = RefNext(@, ScalarBit(arg.n, fr.lad.i),
                                        Pt(fr.mem, fr.lad.xd)),
                        !.ops = Shape(ladder_250_loop(fr.lad)),
                        !.iters = @ + 1]
  /\ UNCHANGED <<pc, script, buf, arg, ret, par>>

\* the end of ladder_250, in both builds
LadReturn ==
  /\ script = "running"
  /\ fr.lad.i < 0
  /\ fr' = [fr EXCEPT !.mem = RunAll(@, ladder_250_exit(fr.lad))]
  /\ obs' = [obs EXCEPT !.v.mem = RunAll(@, ladder_250_exit_v(obs.v.lad)),
                        !.ops = Shape(ladder_250_exit(fr.lad))]
  /\ script' = "returned"
  /\ UNCHANGED <<pc, buf, arg, ret, par>>

NextLadder == LadCall \/ LadStep \/ LadReturn

SpecLadder == InitLadder /\ [][NextLadder]_vars

\* xp and xq of the ladder in fr
LadXp == Pt(fr.mem, fr.lad.xp)
LadXq == Pt(fr.mem, fr.lad.xq)

\* C17: ladder_250 returns xp = [k]Q and xq = [k+1]Q for k the bits 0..250
\* of n: they are the pair of the plain double-and-add on those bits, and
\* [1]Q = Q, [N-1]Q = -Q, [N]Q = 0 and [N+1]Q = Q for Q of order N (bit 255
\* of the scalar being of no account).
C17_Ladder ==
  script = "returned" =>
    /\ ProjEqual(obs.ref.R0, LadXp)
    /\ ProjEqual(obs.ref.R1, LadXq)
    /\ arg.n = Scalar(1) => ProjEqual(obs.q, LadXp)
    /\ arg.n = NMinus1 => ProjEqual(obs.q, LadXp) /\ ProjEqual(KummerZero, LadXq)
    /\ arg.n = NHigh => ProjEqual(KummerZero, LadXp) /\ ProjEqual(obs.q, LadXq)

\* the ladder has returned [N]Q and [N+1]Q for Q twice the base point, on a
\* scalar whose last bit swaps
C17_Witness ==
  /\ script = "returned" /\ arg.n = NHigh /\ arg.q = "double"
  /\ fr.lad.bit = 1
  /\ ProjEqual(KummerZero, LadXp)
  /\ ProjEqual(obs.q, LadXq)

\* memory at the call of xDBLADD in the iteration about to run: after the
\* negation of xq.X and the swap
CallMem == RunAll(fr.mem, SubSeq(ladder_250_loop(fr.lad), 1, 2))

CallXp == Pt(CallMem, fr.lad.xp)
CallXq == Pt(CallMem, fr.lad.xq)

\* what that call doubles, and what it adds to it
CallDbl == IF ScalarBit(arg.n, fr.lad.i) = 0 THEN obs.ref.R0 ELSE obs.ref.R1
CallSum == IF ScalarBit(arg.n, fr.lad.i) = 0 THEN obs.ref.R1 ELSE obs.ref.R0

\* P holds A with the first coordinate negated, and not A itself unless
\* negation leaves A where it is
HoldsNegated(P, A) ==
  /\ ProjEqual(A, NegX(P))
  /\ ProjEqual(A, P) => ProjEqual(A, NegX(A))

\* C28: ladder_250 keeps the sign convention of xDBLADD: xp starts as
\* (11, 22, 19, 3), the identity (-11, 22, 19, 3) of decompress with its
\* first coordinate negated; at every call of xDBLADD xp and xq hold their
\* points with the first coordinate negated, swapped or not; on return xp
\* and xq hold their points un-negated.
C28_SignConvention ==
  /\ (script = "running" /\ fr.lad.i = LadderTop) =>
       /\ LadXp = KPoint(set_const(11), set_const(22), set_const(19), set_const(3))
       /\ <<fe1271_freeze(NegX(LadXp).X), LadXp.Y, LadXp.Z, LadXp.T>> = Identity
  /\ (script = "running" /\ fr.lad.i >= 0) =>
       /\ HoldsNegated(CallXp, CallDbl)
       /\ HoldsNegated(CallXq, CallSum)
  /\ script = "returned" =>
       /\ ProjEqual(obs.ref.R0, LadXp)
       /\ ProjEqual(obs.ref.R1, LadXq)

\* a call of xDBLADD after a swap, on two points that negation moves
C28_Witness ==
  /\ script = "running" /\ fr.lad.i >= 0 /\ fr.lad.i < LadderTop
  /\ ladder_250_swap(fr.lad) = 1
  /\ HoldsNegated(CallXp, CallDbl) /\ ~ProjEqual(CallDbl, CallXp)
  /\ HoldsNegated(CallXq, CallSum) /\ ~ProjEqual(CallSum, CallXq)

\* ct_swap(x, y, b) and "if (b) wam_swap(x, y, 64)" leave the same x and y
SwapSame(x, y) ==
  /\ ct_swap(x, y, 0) = [x |-> x, y |-> y]
  /\ ct_swap(x, y, 1) = wam_swap(x, y, SizeofKpoint)
  /\ ct_swap(x, y, 1) = [x |-> y, y |-> x]

\* C18: on the kpoints the ladder holds, ct_swap leaves what "if (b)
\* wam_swap" leaves, for b = 0 and b = 1, and the CONF_QDSA_FULL ladder and
\* the verifier-only ladder hold the same xp and xq after every iteration
\* and on return.
C18_SwapEquiv ==
  script # "ladder" =>
    /\ SwapSame(LadXp, LadXq)
    /\ Pt(obs.v.mem, obs.v.lad.xp) = LadXp
    /\ Pt(obs.v.mem, obs.v.lad.xq) = LadXq

\* both builds have returned from a ladder whose last swap exchanged two
\* different kpoints
C18_Witness ==
  /\ script = "returned" /\ arg.n = FillBytes(32, 255) /\ fr.lad.bit = 1
  /\ LadXp # LadXq
  /\ Pt(obs.v.mem, obs.v.lad.xp) = LadXp
  /\ Pt(obs.v.mem, obs.v.lad.xq) = LadXq

\* the statements of one iteration, and of the end, less the mask
LoopShape(l) ==
  <<<<"fe1271_neg", PX(l.xq)>>, <<"ct_swap", l.xp, l.xq>>>>
  \o xDBLADD(l.xp, l.xq, l.xd)

ExitShape(l) == <<<<"fe1271_neg", PX(l.xp)>>, <<"ct_swap", l.xp, l.xq>>>>

\* C19: whatever the scalar, ladder_250 (CONF_QDSA_FULL) runs 251 iterations
\* of (negate xq.X, ct_swap, xDBLADD), then one negation of xp.X and one
\* ct_swap; the scalar is in the mask of ct_swap only.
C19_SameOps ==
  /\ script = "running" =>
       /\ obs.iters = LadderTop - fr.lad.i
       /\ obs.iters > 0 => obs.ops = LoopShape(fr.lad)
  /\ script = "returned" =>
       /\ obs.iters = LadderTop + 1
       /\ obs.ops = ExitShape(fr.lad)

\* 251 iterations and the end have run on a scalar of mixed bits
C19_Witness ==
  /\ script = "returned" /\ arg.n = TestBytes(1, 1)
  /\ obs.iters = 251
  /\ obs.ops = ExitShape(fr.lad)

(***************************************************************************)
(* The field routines of qdsv.c on their own: a caller of                  *)
(* fe1271_powminhalf, of fe1271_has_sqrt, and of T followed by T_inv.      *)
(***************************************************************************)
FieldBase ==
  {FeZero, P127, set_const(1), set_const(2), set_const(3), set_const(4),
   FeLoad(TestBytes(1, 1), 0), FeLoad(TestBytes(1, 1), 16),
   FeLoad(TestBytes(2, 1), 0), FeLoad(TestBytes(3, 1), 0)}

\* elements as they come, squares, and negated squares
SqrtDeltas ==
  FieldBase \cup {fe1271_square(v) : v \in FieldBase}
  \cup {fe1271_neg(fe1271_square(v)) : v \in FieldBase}

SqrtInputs ==
  {[kind |-> "sqrt", delta |-> d, sigma |-> s] : d \in SqrtDeltas, s \in {0, 1}}

\* alias: r and x are one element, as in fe1271_invert
PowInputs == {[kind |-> "pow", x |-> v, alias |-> a] : v \in FieldBase, a \in BOOLEAN}

Unit(i) ==
  KPoint(set_const(IF i = 1 THEN 1 ELSE 0), set_const(IF i = 2 THEN 1 ELSE 0),
         set_const(IF i = 3 THEN 1 ELSE 0), set_const(IF i = 4 THEN 1 ELSE 0))

TInputs ==
  {[kind |-> "T", x |-> v] :
     v \in {Unit(i) : i \in 1..4}
           \cup {KPoint(x, y, z, t) :
                   x \in {FeZero, FeLoad(TestBytes(1, 1), 0)},
                   y \in {P127, FeLoad(TestBytes(2, 1), 0)},
                   z \in {set_const(3), FeLoad(TestBytes(1, 1), 16)},
                   t \in {set_const(1), FeLoad(TestBytes(3, 1), 0)}}}

InitField ==
  /\ pc = "idle"
  /\ script = "field"
  /\ buf = Buf0(TestBytes(1, 1))
  /\ arg \in SqrtInputs \cup PowInputs \cup TInputs
  /\ fr = Frame0
  /\ ret = -1
  /\ obs = Obs0
  /\ par = Par0

\* fe1271_has_sqrt(&r->T, &t->X, &r->Z, sigma) with r = sP and t = hQ
HasSqrtCall ==
  /\ script = "field" /\ arg.kind = "sqrt"
  /\ \E m \in {RunAll(Put(fr.mem, PZ("sP"), arg.delta),
                      fe1271_has_sqrt(Loc("caller", "hs"), PT("sP"), PX("hQ"),
                                      PZ("sP"), arg.sigma))} :
       /\ fr' = [fr EXCEPT !.mem = m]
       /\ ret' = m[Loc("caller", "hs")]
  /\ script' = "rooted"
  /\ UNCHANGED <<pc, buf, arg, obs, par>>

\* fe1271_powminhalf(&sP.T, &sP.Z), or fe1271_powminhalf(&sP.T, &sP.T)
PowCall ==
  /\ script = "field" /\ arg.kind = "pow"
  /\ fr' = [fr EXCEPT !.mem =
              IF arg.alias
              THEN RunAll(Put(@, PT("sP"), arg.x), fe1271_powminhalf(PT("sP"), PT("sP")))
              ELSE RunAll(Put(@, PZ("sP"), arg.x), fe1271_powminhalf(PT("sP"), PZ("sP")))]
  /\ script' = "powered"
  /\ UNCHANGED <<pc, buf, arg, ret, obs, par>>

\* T(&hQ, &sP)
TCall ==
  /\ script = "field" /\ arg.kind = "T"
  /\ fr' = [fr EXCEPT !.mem = RunAll(PutPt(@, "sP", arg.x), T_mat("hQ", "sP"))]
  /\ script' = "mapped"
  /\ UNCHANGED <<pc, buf, arg, ret, obs, par>>

\* T_inv(&R, &hQ)
TInvCall ==
  /\ script = "mapped"
  /\ fr' = [fr EXCEPT !.mem = RunAll(@, T_inv("R", "hQ"))]
  /\ script' = "inverted"
  /\ UNCHANGED <<pc, buf, arg, ret, obs, par>>

NextField == HasSqrtCall \/ PowCall \/ TCall \/ TInvCall

SpecField == InitField /\ [][NextField]_vars

\* x and y are congruent modulo p
SameFe(x, y) == fe1271_freeze(x) = fe1271_freeze(y)

\* x is a square modulo p, zero included: Euler's criterion in the form
\* x^(2^126) = x, (p - 1)/2 being 2^126 - 1
IsSquare(x) == SameFe(SquareTimes(x, 126), x)

\* C22: fe1271_has_sqrt returns 0 exactly when delta is a square mod p (zero
\* included) and 1 otherwise; when it returns 0, R squared is congruent to
\* delta and the low bit of the canonical representative of R is sigma.
C22_HasSqrt ==
  script = "rooted" =>
    /\ ret \in {0, 1}
    /\ ret = 0 <=> IsSquare(arg.delta)
    /\ ret = 0 =>
         /\ SameFe(fe1271_square(fr.mem[PT("sP")]), arg.delta)
         /\ fe1271_freeze(fr.mem[PT("sP")])[1] % 2 = arg.sigma

Cube(y) == fe1271_mul(fe1271_square(y), y)

\* the multiplications and the squarings of a program
MulCount(prog) == Cardinality({k \in 1..Len(prog) : prog[k][1] = "fe1271_mul"})

SqrCount(prog) ==
  LET n == [k \in Int |->
             IF prog[k][1] = "fe1271_square" THEN 1
             ELSE IF prog[k][1] = "for_square" THEN prog[k][3] ELSE 0]
  IN Sum(n, 1, Len(prog))

\* no statement of the program looks at a value
StraightLine(prog) ==
  \A k \in 1..Len(prog) :
    prog[k][1] \in {"fe1271_mul", "fe1271_square", "for_square"}

\* the chain is one fixed list of 11 multiplications and 125 squarings
PowChain ==
  /\ MulCount(fe1271_powminhalf(PT("sP"), PZ("sP"))) = 11
  /\ SqrCount(fe1271_powminhalf(PT("sP"), PZ("sP"))) = 125
  /\ StraightLine(fe1271_powminhalf(PT("sP"), PZ("sP")))

\* C23 as stated: fe1271_powminhalf(x) is x^((p-3)/2) = x^(2^126 - 2), i.e.
\* r * x^2 = x^(2^126), by a fixed chain of 11 multiplications and 125
\* squarings.
C23_PowMinHalf ==
  script = "powered" =>
    /\ SameFe(fe1271_mul(fr.mem[PT("sP")], fe1271_square(arg.x)),
              SquareTimes(arg.x, 126))
    /\ PowChain

\* C23 amended: fe1271_powminhalf(x) is x^(3 * 2^125 - 2), i.e. r * x^2 =
\* (x^(2^125))^3 and r = 0 for x = 0, by a fixed chain of 11 multiplications
\* and 125 squarings; r and x may be one element.
C23_PowChainValue ==
  script = "powered" =>
    /\ SameFe(fe1271_mul(fr.mem[PT("sP")], fe1271_square(arg.x)),
              Cube(SquareTimes(arg.x, 125)))
    /\ SameFe(arg.x, FeZero) => SameFe(fr.mem[PT("sP")], FeZero)
    /\ PowChain

\* the chain has run on a full-length element that is not a square, with r
\* and x one element
C23_Witness ==
  /\ script = "powered" /\ arg.alias
  /\ arg.x \in {FeLoad(TestBytes(k, 1), 0) : k \in 1..3}
  /\ ~IsSquare(arg.x)
  /\ SameFe(fe1271_mul(fr.mem[PT("sP")], fe1271_square(arg.x)),
            Cube(SquareTimes(arg.x, 125)))

\* x times the constant of T_inv after T
Scaled(x) == fe1271_freeze(fe1271_mulconst(x, 27489))

\* C25: T_inv(T(x)) is c * x componentwise for one nonzero constant c
\* (c = 27489) that does not depend on x.
C25_TInverse ==
  script = "inverted" =>
    /\ Frozen(fr.mem, "R")
         = <<Scaled(arg.x.X), Scaled(arg.x.Y), Scaled(arg.x.Z), Scaled(arg.x.T)>>
    /\ Scaled(set_const(1)) # FeZero

\* T and T_inv have run on a point of four full-length coordinates
C25_Witness ==
  /\ script = "inverted"
  /\ arg.x = KPoint(FeLoad(TestBytes(1, 1), 0), FeLoad(TestBytes(2, 1), 0),
                    FeLoad(TestBytes(1, 1), 16), FeLoad(TestBytes(3, 1), 0))
  /\ Frozen(fr.mem, "R")[1] = Scaled(arg.x.X)
  /\ Frozen(fr.mem, "R")[1] # FeZero

(***************************************************************************)
(* large_add word by word against the sum it stands for.                   *)
(***************************************************************************)
\* C26: large_add(x, y, os), for os in {0, 4, 8}, replaces the 16-word x by
\* (x + y * 2^(32*os)) mod 2^512: every carry out of a word is 0 or 1 and is
\* carried through word 15, the words below os are unchanged, and no word at
\* index 16 or above is read or written.  (The sum is large_add, the carries
\* of bytes; the carry out of word 15 is large_add_carry.)
C26_LargeAdd ==
  script = "added" =>
    /\ arg.os \in {0, 4, 8}
    /\ obs.r = large_add(arg.x, arg.y, arg.os)
    /\ Len(obs.r) = 64
    /\ \A k \in 1..Len(obs.high) : obs.high[k] \in {0, 1}
    /\ obs.carry = large_add_carry(arg.x, arg.y, arg.os)
    /\ SubSeq(obs.r, 1, 4 * arg.os) = SubSeq(arg.x, 1, 4 * arg.os)
    /\ obs.words = arg.os..15
    /\ Len(obs.high) = 16 - arg.os

\* a carry has run from word 4 through word 15 and out of it
C26_Witness ==
  /\ script = "added" /\ arg.os = 4
  /\ arg.x = FillBytes(64, 255) /\ arg.y = Scalar(1)
  /\ obs.high = <<1, 1, 1, 1, 1, 1, 1, 1, 1, 1, 1, 1>>
  /\ obs.r = FillBytes(16, 255) \o ZeroBytes(48)

(***************************************************************************)
(* The loop of kf800_permute, one round a step.  A uint is 32 bits, kept   *)
(* as two halves of 16 bits: [hi, lo].                                      *)
(***************************************************************************)
Uint(hi, lo) == [hi |-> hi, lo |-> lo]

\* "uint r = KF800_MAXR - nr" with r = 0 in its place
kf800_first_0(nr) == Uint(0, 0)

\* "uint r = KF800_MAXR - nr": the difference modulo 2^32
kf800_first(nr) ==
  Uint((65536 - nr.hi - (IF nr.lo > KF800_MAXR THEN 1 ELSE 0)) % 65536,
       (65536 + KF800_MAXR - nr.lo) % 65536)

\* "r < KF800_MAXR"
kf800_more(r) == r.hi = 0 /\ r.lo < KF800_MAXR

\* "r++"
kf800_incr(r) ==
  Uint((r.hi + (IF r.lo = 65535 THEN 1 ELSE 0)) % 65536, (r.lo + 1) % 65536)

\* a block of the rate as bobjr_absorb_wa hands it to the permutation
SpongeBlock == wam_copy(ZeroBytes(100), 0, SpongeData(0, 68), 68)

PermuteStates == {ZeroBytes(100), SpongeBlock, SpongeData(0, 100)}

PermuteRounds ==
  {Uint(0, 0), Uint(0, 1), Uint(0, 5), Uint(0, 9), Uint(0, BOBJR_NROUNDS),
   Uint(0, 11), Uint(0, 12), Uint(0, 65535), Uint(1, 0), Uint(1, 10),
   Uint(32768, 0), Uint(65535, 65526), Uint(65535, 65535)}

\* A: the 25 lanes; r: the loop variable; rcs: the constants of the rounds
\* run so far
PermuteObs0 == [A |-> <<>>, r |-> Uint(0, 0), rcs |-> <<>>]

InitPermute ==
  /\ pc = "idle"
  /\ script = "permute"
  /\ buf = Buf0(TestBytes(1, 1))
  /\ arg \in {[A |-> A, nr |-> nr] : A \in PermuteStates, nr \in PermuteRounds}
  /\ fr = Frame0
  /\ ret = -1
  /\ obs = PermuteObs0
  /\ par = Par0

\* kf800_permute(A, nr) up to the first test of its loop
PermuteCall ==
  /\ script = "permute"
  /\ obs' = [A |-> Lanes(arg.A, 0), r |-> kf800_first(arg.nr), rcs |-> <<>>]
  /\ script' = "rounds"
  /\ UNCHANGED <<pc, buf, arg, fr, ret, par>>

\* one pass of the loop
PermuteRound ==
  /\ script = "rounds" /\ kf800_more(obs.r)
  /\ obs' = [A |-> kf800_round(obs.A, obs.r.lo), r |-> kf800_incr(obs.r),
             rcs |-> Append(obs.rcs, kf800_rcs[obs.r.lo + 1])]
  /\ UNCHANGED <<pc, script, buf, arg, fr, ret, par>>

\* the loop ends
PermuteReturn ==
  /\ script = "rounds" /\ ~kf800_more(obs.r)
  /\ script' = "permuted"
  /\ UNCHANGED <<pc, buf, arg, fr, ret, obs, par>>

NextPermute == PermuteCall \/ PermuteRound \/ PermuteReturn

SpecPermute == InitPermute /\ [][NextPermute]_vars

\* C24: kf800_permute(A, nr) runs exactly nr rounds, on the last nr entries
\* of the table of round constants in table order, when nr <= KF800_MAXR,
\* and no round (A unchanged) when nr > KF800_MAXR; the sponge calls it with
\* nr = 10, the constants 0x8000808B .. 0x00008080.
C24_PermuteRounds ==
  script = "permuted" =>
    /\ (arg.nr.hi = 0 /\ arg.nr.lo <= KF800_MAXR) =>
         /\ Len(obs.rcs) = arg.nr.lo
         /\ obs.rcs = SubSeq(kf800_rcs, KF800_MAXR - arg.nr.lo + 1, KF800_MAXR)
         /\ Unlanes(obs.A, 0) = kf800_permute(arg.A, arg.nr.lo)
    /\ (arg.nr.hi > 0 \/ arg.nr.lo > KF800_MAXR) =>
         /\ obs.rcs = <<>>
         /\ Unlanes(obs.A, 0) = arg.A
    /\ (arg.nr = Uint(0, BOBJR_NROUNDS)) =>
         /\ Len(obs.rcs) = 10
         /\ obs.rcs[1] = <<139, 128, 0, 128>>
         /\ obs.rcs[10] = <<128, 128, 0, 0>>
         /\ arg.A = SpongeBlock =>
              Unlanes(obs.A, 0)
                = bobjr_absorb_wa(bobjr_init([ptr |-> 0, state |-> <<>>]),
                                  SpongeData(0, 68), 68).state

\* five rounds have run on a block of the sponge and changed it
C24_Witness ==
  /\ script = "permuted"
  /\ arg.nr = Uint(0, 5) /\ arg.A = SpongeBlock
  /\ Len(obs.rcs) = 5 /\ obs.rcs[1] = <<128, 0, 0, 0>>
  /\ Unlanes(obs.A, 0) # arg.A

\* a count above KF800_MAXR has gone through without a round
C24_WitnessNone ==
  /\ script = "permuted"
  /\ arg.nr = Uint(0, 11) /\ obs.rcs = <<>>

(***************************************************************************)
(* A caller that absorbs call after call into one context; the loop of     *)
(* bobjr_absorb_wa runs a chunk a step.                                     *)
(***************************************************************************)
MaxAbsorbed == 280

AbsorbLens == {0, 4, 8, 60, 64, 68, 72, 136, 140}

\* total: the bytes absorbed; perms: the permutations run; len, ptr, data:
\* the locals of bobjr_absorb_wa; top: the highest end of a wam_copy
AbsorbObs0 ==
  [total |-> 0, perms |-> 0, len |-> 0, ptr |-> 0, data |-> <<>>, top |-> 0,
   calls |-> 0]

InitAbsorb ==
  /\ pc = "idle"
  /\ script = "absorb"
  /\ buf = Buf0(TestBytes(1, 1))
  /\ arg = Arg0
  /\ fr = [Frame0 EXCEPT !.ctx = bobjr_init([ptr |-> 0, state |-> <<>>])]
  /\ ret = -1
  /\ obs = AbsorbObs0
  /\ par = Par0

\* bobjr_absorb_wa(&ctx, data, len): "uint ptr = ctx->ptr"
AbsorbEnter ==
  /\ script = "absorb"
  /\ \E len \in AbsorbLens :
       /\ obs.total + len <= MaxAbsorbed
       /\ obs' = [obs EXCEPT !.len = len, !.ptr = fr.ctx.ptr,
                             !.data = SpongeData(obs.total, len)]
  /\ script' = "chunks"
  /\ UNCHANGED <<pc, buf, arg, fr, ret, par>>

\* one pass of "while (len)"; ptr is 0 after the pass exactly when the pass
\* has run the permutation
AbsorbChunk ==
  /\ script = "chunks" /\ obs.len # 0
  /\ \E cpy \in {bobjr_cpy(obs.ptr, obs.len)} :
       \E ctx \in {bobjr_absorb_chunk([ptr |-> obs.ptr, state |-> fr.ctx.state],
                                      obs.data, cpy)} :
         /\ fr' = [fr EXCEPT !.ctx.state = ctx.state]
         /\ obs' = [obs EXCEPT !.len = @ - cpy, !.ptr = ctx.ptr,
                               !.data = SubSeq(@, cpy + 1, Len(@)),
                               !.total = @ + cpy,
                               !.perms = @ + (IF ctx.ptr = 0 THEN 1 ELSE 0),
                               !.top = IF obs.ptr + cpy > @ THEN obs.ptr + cpy ELSE @]
  /\ UNCHANGED <<pc, script, buf, arg, ret, par>>

\* "ctx->ptr = ptr" and return
AbsorbLeave ==
  /\ script = "chunks" /\ obs.len = 0
  /\ fr' = [fr EXCEPT !.ctx.ptr = obs.ptr]
  /\ obs' = [obs EXCEPT !.calls = IF @ < 2 THEN @ + 1 ELSE @]
  /\ script' = "absorb"
  /\ UNCHANGED <<pc, buf, arg, ret, par>>

NextAbsorb == AbsorbEnter \/ AbsorbChunk \/ AbsorbLeave

SpecAbsorb == InitAbsorb /\ [][NextAbsorb]_vars

\* C27: from a zeroed context and through calls of bobjr_absorb_wa with
\* lengths that are multiples of 4, on return from each call ctx.ptr is the
\* bytes absorbed mod 68, so 0 <= ptr < 68, every write ends inside the
\* 68-byte rate, and the permutations run are floor(bytes absorbed / 68).
C27_AbsorbCount ==
  /\ obs.top <= BOBJR_RATE
  /\ script = "absorb" =>
       /\ fr.ctx.ptr = obs.total % 68
       /\ fr.ctx.ptr >= 0 /\ fr.ctx.ptr < 68
       /\ obs.perms = obs.total \div 68
       /\ Len(fr.ctx.state) = 100

\* a second call has returned after a chunk that filled the rate to its
\* last byte and two permutations
C27_Witness ==
  /\ script = "absorb" /\ obs.calls = 2
  /\ obs.total = 140 /\ obs.perms = 2 /\ fr.ctx.ptr = 4 /\ obs.top = 68

(***************************************************************************)
(* A verifier that is handed the signer's signature and then the same      *)
(* signature with N added to its s field.                                  *)
(***************************************************************************)
\* v + N is below 2^256
FitsAddN(v) == large_add_carry(v \o ZeroBytes(32), N, 0) = 0
                 /\ large_add(v \o ZeroBytes(32), N, 0)[33] = 0

\* (R, s) of arg.sig has been accepted: the verifier receives (R, s + N)
Stretch ==
  /\ pc = "idle" /\ script = "verified" /\ arg.tag = "none" /\ ret = 0
  /\ FitsAddN(Slice(arg.sig, 32, 32))
  /\ arg' = [arg EXCEPT !.tag = "sN",
                        !.sig = Slice(@, 0, 32) \o AddN(Slice(@, 32, 32))]
  /\ script' = "tampered"
  /\ UNCHANGED <<pc, buf, fr, ret, obs, par>>

NextStretch ==
  \/ LadderStep
  \/ KeypairCall
  \/ KeypairReturn
  \/ \E m \in Msgs : SignCall(m)
  \/ SignReturn
  \/ Tamper("none")
  \/ VerifyCall
  \/ VerifyMid
  \/ VerifyReturn
  \/ Stretch

SpecStretch == Init /\ [][NextStretch]_vars

\* C29: qdsa_verify reduces the s field modulo N and does not require it to
\* be canonical: when (R, s) has been accepted for (pk, msg) and s + N is
\* below 2^256, (R, s + N) is accepted for (pk, msg) too.
C29_StretchedAccepted ==
  (script = "verified" /\ arg.tag = "sN") =>
    /\ ret = 0
    /\ arg.pk = buf.pk /\ arg.msg = buf.msg
    /\ Slice(arg.sig, 0, 32) = Slice(buf.sig, 0, 32)
    /\ Slice(arg.sig, 32, 32) = AddN(Slice(buf.sig, 32, 32))
    /\ Canon(fr.s) = Canon(Slice(buf.sig, 32, 32))

\* a signature whose s field is not the signer's has been accepted
C29_Witness ==
  /\ script = "verified" /\ arg.tag = "sN" /\ ret = 0
  /\ arg.sig # buf.sig
  /\ Slice(arg.sig, 32, 32) = AddN(Slice(buf.sig, 32, 32))
  /\ ~Less(Slice(arg.sig, 32, 32), N)
  /\ obs.quads = AllZero6

=============================================================================
